---- MODULE Spec2Model ----
(***************************************************************************)
(* Client-side DOM translation subsystem of CommunityDesign:               *)
(*   - client translation cache            (lib/translation/client/cache)  *)
(*   - client batching translator          (lib/translation/client/deepl)  *)
(*   - server provider adapter             (lib/translation/providers)     *)
(*   - Global DOM translator               (components/translation)        *)
(* Strings are sequences of UTF-16 code units, so that trimming, hashing   *)
(* and key derivation are computed the way the code computes them.         *)
(***************************************************************************)
EXTENDS Integers, Sequences, FiniteSets, TLC

----------------------------------------------------------------------------
(* Bounds of the model *)

\* number of translateBatch calls explored by SpecTB
MaxCalls == 2
\* longest input array handed to translateBatch by SpecTB
MaxBatchLen == 2
\* turns of the event loop in which a caller calls translateText (once, or
\* MAX_BATCH_SIZE times back to back) explored by SpecBT
MaxTurns == 2
\* language switches, DOM mutations of the rendering framework and failed calls
\* of the endpoint explored by SpecGT
MaxEvents == 2
\* cache operations explored by SpecCache
MaxCacheOps == 3
\* page requests, edits and deletions of posts explored by SpecServer
MaxSrvEvents == 3
\* requests to /api/translate of the client 10.0.0.1 explored by SpecRate:
\* enough to go past RATE_LIMIT
MaxRequests == 102
\* requests of the other client explored by SpecRate
MaxOtherRequests == 2
\* half windows of time that pass in SpecRate
MaxTicks == 3
\* calls of setLanguage and triggerRetranslation explored by SpecCtx
MaxCtxCalls == 2
\* translationVersion up to which triggerRetranslation is called
MaxVersion == 3

----------------------------------------------------------------------------
(* Strings *)

\* JavaScript null / undefined, kept comparable with strings
Null == <<-1>>

\* language codes: "en", "de", "fr"
EN == <<101, 110>>
DE == <<100, 101>>
FR == <<102, 114>>

\* texts used as inputs
sEmpty == <<>>
\* "\n "
sBlank == <<10, 32>>
\* "\t?"
sTabQ == <<9, 63>>
\* "Hi"
sHi == <<72, 105>>
\* "Yo"
sYo == <<89, 111>>
\* "Ok"
sOk == <<79, 107>>
\* "@jo"
sAtJo == <<64, 106, 111>>
\* "@al"
sAtAl == <<64, 97, 108>>

\* String.prototype.trim: the white space code units of the model alphabet
IsWs(c) == c \in {9, 10, 11, 12, 13, 32}

RECURSIVE TrimLeft(_)
TrimLeft(s) == IF s = <<>> THEN s ELSE IF IsWs(Head(s)) THEN TrimLeft(Tail(s)) ELSE s

RECURSIVE TrimRight(_)
TrimRight(s) ==
    IF s = <<>> THEN s
    ELSE IF IsWs(s[Len(s)]) THEN TrimRight(SubSeq(s, 1, Len(s) - 1)) ELSE s

Trim(s) == TrimRight(TrimLeft(s))

\* a JavaScript string is truthy iff it is non-empty (null/undefined are falsy)
Truthy(v) == v # Null /\ v # <<>>

\* a || b
OrElse(a, b) == IF Truthy(a) THEN a ELSE b

ToLowerChar(c) == IF c >= 65 /\ c <= 90 THEN c + 32 ELSE c
ToUpperChar(c) == IF c >= 97 /\ c <= 122 THEN c - 32 ELSE c
ToLower(s) == [i \in 1..Len(s) |-> ToLowerChar(s[i])]
ToUpper(s) == [i \in 1..Len(s) |-> ToUpperChar(s[i])]

\* s.split('-')[0]
RECURSIVE BeforeDash(_)
BeforeDash(s) ==
    IF s = <<>> THEN s
    ELSE IF Head(s) = 45 THEN <<>> ELSE <<Head(s)>> \o BeforeDash(Tail(s))

\* language-codes.ts getBaseLanguage
getBaseLanguage(locale) == BeforeDash(ToLower(locale))

\* language-codes.ts SUPPORTED_LANGUAGES, the rows of the languages of the model
SUPPORTED_LANGUAGES == {EN, DE, FR}

\* "constructor"
sConstructor == <<99, 111, 110, 115, 116, 114, 117, 99, 116, 111, 114>>

\* the lower-case property names SUPPORTED_LANGUAGES, an object literal,
\* inherits from Object.prototype: "constructor" and "__proto__"
InheritedKeys == {sConstructor, <<95, 95, 112, 114, 111, 116, 111, 95, 95>>}

\* language-codes.ts isLanguageSupported: base in SUPPORTED_LANGUAGES
isLanguageSupported(locale) ==
    getBaseLanguage(locale) \in SUPPORTED_LANGUAGES \cup InheritedKeys

\* language-codes.ts DEEPL_TARGET_MAP, the rows of the languages of the model
DEEPL_TARGET_MAP ==
    ( <<101, 110>> :> <<69, 78, 45, 85, 83>>                   \* en    -> EN-US
   @@ <<101, 110, 45, 117, 115>> :> <<69, 78, 45, 85, 83>>     \* en-us -> EN-US
   @@ <<100, 101>> :> <<68, 69>>                               \* de    -> DE
   @@ <<102, 114>> :> <<70, 82>> )                             \* fr    -> FR

\* language-codes.ts toDeepLTarget
toDeepLTarget(locale) ==
    LET normalized == Trim(ToLower(locale))
        baseLang == BeforeDash(normalized)
    IN  IF normalized \in DOMAIN DEEPL_TARGET_MAP THEN DEEPL_TARGET_MAP[normalized]
        ELSE IF baseLang \in DOMAIN DEEPL_TARGET_MAP THEN DEEPL_TARGET_MAP[baseLang]
        ELSE <<69, 78, 45, 85, 83>>

\* providers/deepl.ts toDeepLLanguage
toDeepLLanguage(code, isTarget) ==
    LET upperCode == ToUpper(code)
    IN  IF isTarget /\ upperCode = <<69, 78>> THEN <<69, 78, 45, 85, 83>>
        ELSE IF isTarget /\ upperCode = <<80, 84>> THEN <<80, 84, 45, 66, 82>>
        ELSE upperCode

----------------------------------------------------------------------------
(* The external translation provider (DeepL).  A translation into language *)
(* L is the text prefixed with the lower-case initial of L ('d', 'f', 'e'); *)
(* a text that already is in language L comes back unchanged, and so does  *)
(* a text that went through MaxMarks translations.                         *)

MaxMarks == 2

LangMark(providerCode) == ToLowerChar(providerCode[1])

\* the marks the provider puts on texts
Marks == {100, 102, 101}

RECURSIVE MarkCount(_)
MarkCount(s) ==
    IF s = <<>> THEN 0
    ELSE IF Head(s) \in Marks THEN 1 + MarkCount(Tail(s)) ELSE 0

\* the text is an output of the provider, not a source text
IsTranslated(s) == s # Null /\ s # <<>> /\ Head(s) \in Marks

Provider(s, providerCode) ==
    IF s # <<>> /\ Head(s) = LangMark(providerCode) THEN s
    ELSE IF MarkCount(s) >= MaxMarks THEN s
    ELSE <<LangMark(providerCode)>> \o s

----------------------------------------------------------------------------
(* Client translation cache (cache-client) *)

\* "v1_"
CACHE_VERSION == <<118, 49, 95>>

\* one round of: hash = ((hash << 5) - hash) + char; hash = hash & hash
\* on a 32 bit integer kept as two 16 bit halves <<hi, lo>>
HashStep(h, c) ==
    LET lo == 31 * h[2] + c
        hi == 31 * h[1] + (lo \div 65536)
    IN  <<hi % 65536, lo % 65536>>

\* the loop of generateSyncCacheKey; each round is computed once, on values
RECURSIVE HashFold(_, _)
HashFold(h, input) ==
    IF input = <<>> THEN h
    ELSE CHOOSE r \in {HashFold(next, Tail(input)) :
                          next \in {HashStep(hv, Head(input)) : hv \in {h}}} : TRUE

\* Math.abs of the signed 32 bit value held in <<hi, lo>>
Abs32(h) ==
    IF h[1] < 32768 THEN h
    ELSE <<65535 - h[1] + (IF h[2] = 0 THEN 1 ELSE 0), (65536 - h[2]) % 65536>>

Base36Char(d) == IF d < 10 THEN 48 + d ELSE 87 + d

\* Number.prototype.toString(36) of the magnitude <<hi, lo>>
\* one division by 36 of the magnitude <<hi, lo>>: <<quotient hi, quotient lo, digit>>
DivMod36(m) ==
    <<m[1] \div 36, ((m[1] % 36) * 65536 + m[2]) \div 36, ((m[1] % 36) * 65536 + m[2]) % 36>>

RECURSIVE Base36(_)
Base36(m) ==
    CHOOSE r \in {IF qd[1] = 0 /\ qd[2] = 0 THEN <<Base36Char(qd[3])>>
                  ELSE Base36(<<qd[1], qd[2]>>) \o <<Base36Char(qd[3])>> :
                  qd \in {DivMod36(mv) : mv \in {m}}} : TRUE

\* cache-client generateSyncCacheKey
generateSyncCacheKey(text, targetLang) ==
    CHOOSE r \in {CACHE_VERSION \o Base36(Abs32(h)) :
                    h \in {HashFold(<<0, 0>>, input) :
                             input \in {text \o <<124, 124>> \o targetLang}}} : TRUE

\* Map.get / localStorage.getItem on a tier held as a function key -> string
TierGet(tier, key) == IF key \in DOMAIN tier THEN tier[key] ELSE Null

TierSet(tier, key, v) == [k \in DOMAIN tier \cup {key} |-> IF k = key THEN v ELSE tier[k]]

\* cache-client getFromCache: the value returned
getFromCache(mem, ls, text, targetLang) ==
    LET key == generateSyncCacheKey(text, targetLang)
    IN  IF Truthy(TierGet(mem, key)) THEN TierGet(mem, key)
        ELSE IF Truthy(TierGet(ls, key)) THEN TierGet(ls, key)
        ELSE Null

\* cache-client getFromCache: the memory tier it leaves behind
\* (a hit in localStorage is copied into the memory tier)
getFromCacheMem(mem, ls, text, targetLang) ==
    LET key == generateSyncCacheKey(text, targetLang)
    IN  IF Truthy(TierGet(mem, key)) THEN mem
        ELSE IF Truthy(TierGet(ls, key)) THEN TierSet(mem, key, TierGet(ls, key))
        ELSE mem

\* cache-client setToCache; lsOk = FALSE is localStorage.setItem throwing
setToCache(c, text, targetLang, translation, lsOk) ==
    LET key == generateSyncCacheKey(text, targetLang)
    IN  [mem |-> TierSet(c.mem, key, translation),
         ls  |-> IF lsOk THEN TierSet(c.ls, key, translation) ELSE c.ls]

\* cache-client setBatchToCache over items <<text, translation>>: setToCache on
\* each item in order, so the last item written under a key is the one that stays
setBatchToCache(c, items, targetLang, lsOk) ==
    LET keyOf == [k \in 1..Len(items) |-> generateSyncCacheKey(items[k][1], targetLang)]
        keys == {keyOf[k] : k \in 1..Len(items)}
        lastOf(key) == CHOOSE k \in 1..Len(items) :
                          keyOf[k] = key /\ \A j \in (k + 1)..Len(items) : keyOf[j] # key
        written(tier) == [key \in DOMAIN tier \cup keys |->
                             IF key \in keys THEN items[lastOf(key)][2] ELSE tier[key]]
    IN  [mem |-> written(c.mem), ls |-> IF lsOk THEN written(c.ls) ELSE c.ls]

\* cache-client getBatchFromCache: the Map text -> cached | null
getBatchFromCache(mem, ls, texts, targetLang) ==
    [t \in {texts[i] : i \in 1..Len(texts)} |-> getFromCache(mem, ls, t, targetLang)]

\* cache-client getBatchFromCache: the memory tier after all its lookups
RECURSIVE getBatchFromCacheMem(_, _, _, _)
getBatchFromCacheMem(mem, ls, texts, targetLang) ==
    IF texts = <<>> THEN mem
    ELSE CHOOSE r \in {getBatchFromCacheMem(next, ls, Tail(texts), targetLang) :
                        next \in {getFromCacheMem(mem, ls, Head(texts), targetLang)}} : TRUE

----------------------------------------------------------------------------
(* Server side: provider adapter and the /api/translate route *)

\* what the DeepL HTTP call of one adapter invocation does
ProviderOutcomes == {"ok", "short", "httpError", "throw"}

\* the indices of the texts with text.trim() non-empty, in order
NonEmptyIndices(texts) ==
    LET NonEmpty(i) == Trim(texts[i]) # <<>>
    IN  SelectSeq([i \in 1..Len(texts) |-> i], NonEmpty)

\* index of x in the sequence s of distinct elements, 0 if absent
IndexOf(s, x) ==
    IF \E k \in 1..Len(s) : s[k] = x THEN CHOOSE k \in 1..Len(s) : s[k] = x ELSE 0

\* providers/deepl.ts translateBatch
ServerTranslateBatch(texts, sourceLang, targetLang, hasKey, po) ==
    LET nonEmptyIndices == NonEmptyIndices(texts)
        nonEmptyTexts == [k \in 1..Len(nonEmptyIndices) |-> texts[nonEmptyIndices[k]]]
        target == toDeepLLanguage(targetLang, TRUE)
        full == [k \in 1..Len(nonEmptyTexts) |-> Provider(nonEmptyTexts[k], target)]
        translations == IF po = "short" THEN SubSeq(full, 1, Len(full) - 1) ELSE full
    IN  IF ~hasKey THEN texts
        ELSE IF Len(texts) = 0 THEN <<>>
        ELSE IF Len(nonEmptyTexts) = 0 THEN texts
        ELSE IF po \in {"httpError", "throw"} THEN texts
        ELSE IF Len(translations) = Len(nonEmptyTexts)
             THEN [i \in 1..Len(texts) |->
                      IF IndexOf(nonEmptyIndices, i) # 0
                      THEN translations[IndexOf(nonEmptyIndices, i)]
                      ELSE texts[i]]
        ELSE texts

\* api/translate/route.ts POST: the status and the translations of the body
RoutePOST(texts, targetLang, sourceLang, allowed, hasKey, po) ==
    LET deeplTargetLang == toDeepLTarget(targetLang)
        deeplSourceLang == IF Truthy(sourceLang) THEN toDeepLTarget(sourceLang) ELSE Null
    IN  IF ~allowed THEN [status |-> 429, translations |-> <<>>]
        ELSE IF Len(texts) = 0 THEN [status |-> 400, translations |-> <<>>]
        ELSE IF ~Truthy(targetLang) THEN [status |-> 400, translations |-> <<>>]
        ELSE IF Len(texts) > 100 THEN [status |-> 400, translations |-> <<>>]
        ELSE IF deeplSourceLang # Null
                /\ ToLower(BeforeDash(deeplTargetLang)) = ToLower(BeforeDash(deeplSourceLang))
             THEN [status |-> 200, translations |-> texts]
        ELSE [status |-> 200,
              translations |-> ServerTranslateBatch(texts, deeplSourceLang, deeplTargetLang,
                                                    hasKey, po)]

----------------------------------------------------------------------------
(* Client translateBatch (deepl-client) *)

\* a rejected promise / thrown error, where an array of strings is expected
Throw == << <<-2>> >>

\* what one call of the endpoint does, seen from the client:
\* the route answers ("ok", ... as the provider behaves), the route refuses
\* (rate limit) or the network fails; "cut" is an answer that lacks its last element
NetOutcomes == {"ok", "short", "httpError", "throw", "nokey", "limited", "neterr", "cut"}

\* deepl-client fetchTranslations
fetchTranslations(texts, targetLang, sourceLang, net) ==
    LET po == IF net \in ProviderOutcomes THEN net ELSE "ok"
        resp == RoutePOST(texts, toDeepLTarget(targetLang),
                          IF Truthy(sourceLang) THEN toDeepLTarget(sourceLang) ELSE Null,
                          net # "limited", net # "nokey", po)
    IN  IF net = "neterr" THEN Throw
        ELSE IF resp.status # 200 THEN Throw
        ELSE IF net = "cut" THEN SubSeq(resp.translations, 1, Len(resp.translations) - 1)
        ELSE resp.translations

\* deepl-client translateBatch, lines 202-211
RECURSIVE ToTranslate(_, _)
ToTranslate(texts, cacheResults) ==
    IF texts = <<>> THEN <<>>
    ELSE (IF Trim(Head(texts)) # <<>> /\ cacheResults[Head(texts)] = Null
          THEN <<Head(texts)>> ELSE <<>>) \o ToTranslate(Tail(texts), cacheResults)

\* deepl-client translateBatch, line 215
AllCachedResult(texts, cacheResults) ==
    [i \in 1..Len(texts) |-> OrElse(cacheResults[texts[i]], texts[i])]

\* deepl-client translateBatch, lines 224-228: cacheResults after the forEach
RECURSIVE MergeTranslations(_, _, _, _)
MergeTranslations(cacheResults, toTranslate, translations, i) ==
    IF i > Len(translations) \/ i > Len(toTranslate) THEN cacheResults
    ELSE MergeTranslations([cacheResults EXCEPT ![toTranslate[i]] = translations[i]],
                           toTranslate, translations, i + 1)

\* deepl-client translateBatch, lines 223-229: the items handed to setBatchToCache
CacheItems(toTranslate, translations) ==
    [i \in 1..(IF Len(translations) < Len(toTranslate) THEN Len(translations)
               ELSE Len(toTranslate)) |-> <<toTranslate[i], translations[i]>>]

\* deepl-client translateBatch, lines 232-235
FetchedResult(texts, cacheResults) ==
    [i \in 1..Len(texts) |->
        IF Trim(texts[i]) = <<>> THEN texts[i] ELSE OrElse(cacheResults[texts[i]], texts[i])]

----------------------------------------------------------------------------
(* State *)

VARIABLES
    cache,      \* client cache: [mem, ls], each a function key -> translation
    tb,         \* the translateBatch call in progress
    calls,      \* translateBatch calls made so far
    srv,        \* last invocation of the server adapter: [texts, result]
    reqs,       \* translateText calls so far, in call order: the promise of each
    requestQueue,   \* deepl-client requestQueue, as indices into reqs
    flushTimeout,   \* deepl-client flushTimeout !== null
    flushes,    \* flushQueue invocations in progress: the chunks each has left,
                \* the head chunk being the one whose fetch is awaited
    turns       \* turns of the event loop in which callers called translateText

\* the page and the GlobalTranslator component mounted on it
VARIABLES
    currentLanguage,      \* TranslationContext currentLanguage of the last render
    dom,                  \* the elements of document.body
    src,                  \* what the rendering framework last rendered into each element
    pendingOurMutations,  \* GlobalTranslator pendingOurMutations (WeakSet of nodes)
    translatedNodes,      \* translatedNodesRef.current (WeakMap node -> language)
    pendingTargets,       \* pendingTargetsRef.current
    inflight,             \* the applyTranslations call awaiting translateBatch, or NoApply
    timers,               \* pending setTimeout callbacks, in the order they were set,
                          \* each with the milliseconds left until it is due
    nextId,               \* identity of the next text node created
    events,               \* language switches, framework mutations, failed calls so far
    obsLog,               \* the mutation records handled in the last task, with their fate
    lastSwitch,           \* the language shown before the last switch
    translationVersion,   \* TranslationContext translationVersion
    rescanOwed,           \* triggerRetranslation was called and no full scan has run since
    scannedLang,          \* the language of the last full scan, Null once the page or
                          \* the language changed or a call failed after it
    repeatScan,           \* the last full scan repeated a scan whose translations
                          \* were applied, with nothing pending
    isTranslating,        \* TranslationContext isTranslating, the busy flag
    pathname              \* usePathname(), the route shown

\* the callers of the client cache
VARIABLES
    cacheLog,             \* the last cache operation: what was asked and what came back
    cacheOps              \* cache operations so far

\* the server: the posts, the translation table and the calls of translateForUser
VARIABLES
    dbPost,               \* db.post: the plainText of each post, Null once deleted
    dbTranslation,        \* db.translation: the row of each unique key
    userCalls,            \* translateForUser calls so far, each with what it saw and did
    upserts,              \* setCachedTranslation calls whose upsert has not run yet
    srvEvents             \* requests, edits and deletions so far

\* the rate limiter of the /api/translate route
VARIABLES
    requestCounts,        \* route.ts requestCounts: the record of each client IP
    clock,                \* Date.now(), in ms since the server started
    rlWindow,             \* per client IP: when its current window opened and the
                          \* requests it has made in it
    rlLog,                \* the last request: its IP and the response
    rlRequests            \* requests so far, per client IP

\* the TranslationProvider (TranslationContext.tsx)
VARIABLES
    mountIn,              \* what the provider finds when it mounts: the server's
                          \* language, localStorage, navigator
    provider,             \* its state: currentLanguage and translationVersion, or
                          \* NotMounted
    localStore,           \* localStorage 'preferred_language', Null if not set
    ctxLog,               \* the last call of setLanguage or triggerRetranslation
    ctxCalls              \* calls so far

cacheVars == <<cache>>
clVars == <<cacheLog, cacheOps>>
svVars == <<dbPost, dbTranslation, userCalls, upserts, srvEvents>>
\* the state of the components added after the DOM translator
rlVars == <<requestCounts, clock, rlWindow, rlLog, rlRequests>>
ctxVars == <<mountIn, provider, localStore, ctxLog, ctxCalls>>
moreVars == <<clVars, svVars, rlVars, ctxVars>>
tbVars == <<tb, calls, srv>>
btVars == <<reqs, requestQueue, flushTimeout, flushes, turns>>
gtVars == <<currentLanguage, dom, src, pendingOurMutations, translatedNodes, pendingTargets,
            inflight, timers, nextId, events, obsLog, lastSwitch, translationVersion,
            rescanOwed, scannedLang, repeatScan, isTranslating, pathname>>
vars == <<cache, tb, calls, srv, reqs, requestQueue, flushTimeout, flushes, turns,
          currentLanguage, dom, src, pendingOurMutations, translatedNodes, pendingTargets,
          inflight, timers, nextId, events, obsLog, lastSwitch, translationVersion,
          rescanOwed, scannedLang, repeatScan, isTranslating, pathname, cacheLog, cacheOps,
          dbPost, dbTranslation, userCalls, upserts, srvEvents,
          requestCounts, clock, rlWindow, rlLog, rlRequests,
          mountIn, provider, localStore, ctxLog, ctxCalls>>

EmptyTier == [k \in {} |-> <<>>]

TBIdle == [phase |-> "idle", texts |-> <<>>, lang |-> Null, src |-> Null,
           toTranslate |-> <<>>, cacheResults |-> EmptyTier, result |-> <<>>]

\* texts offered to translateBatch: "", "\n ", "\t?", "Hi"
TBTexts == {sEmpty, sBlank, sTabQ, sHi}

RECURSIVE SeqsUpTo(_, _)
SeqsUpTo(S, n) ==
    IF n = 0 THEN {<<>>}
    ELSE LET shorter == SeqsUpTo(S, n - 1)
         IN  shorter \cup {Append(q, x) : q \in {r \in shorter : Len(r) = n - 1}, x \in S}

TBInputs == SeqsUpTo(TBTexts, MaxBatchLen)

InitCache == cache = [mem |-> EmptyTier, ls |-> EmptyTier]

TBAtRest ==
    /\ tb = TBIdle
    /\ calls = 0
    /\ srv = [texts |-> <<>>, result |-> <<>>]

BTAtRest ==
    /\ reqs = <<>>
    /\ requestQueue = <<>>
    /\ flushTimeout = FALSE
    /\ flushes = <<>>
    /\ turns = 0

\* document.body and its elements: <p>, <option>, <button title>, and a
\* <span data-no-translate> that the framework renders later
Body == 0
eP == 1
eOpt == 2
eBtn == 3
eUser == 4
ElemSet == {eP, eOpt, eBtn, eUser}
\* text nodes carry the numbers from 11 on

\* no applyTranslations call is awaiting its translateBatch
NoApply == [lang |-> Null, targets |-> <<>>, texts |-> <<>>, toTranslate |-> <<>>,
            cacheResults |-> EmptyTier]

\* the page as rendered in the default language: <p>Hi{" "}Yo</p> with two text
\* nodes, <option>Hi</option>, <button title="Ok">, the <span> not rendered yet
InitSrc ==
    [e \in ElemSet |->
        CASE e = eP    -> [present |-> TRUE, texts |-> <<sHi, sYo>>, ids |-> <<11, 12>>,
                           title |-> Null]
          [] e = eOpt  -> [present |-> TRUE, texts |-> <<sHi>>, ids |-> <<13>>, title |-> Null]
          [] e = eBtn  -> [present |-> TRUE, texts |-> <<>>, ids |-> <<>>, title |-> sOk]
          [] e = eUser -> [present |-> FALSE, texts |-> <<>>, ids |-> <<>>, title |-> Null]]

InitDom ==
    [e \in ElemSet |->
        [present |-> InitSrc[e].present,
         kids |-> CASE e = eP   -> <<[id |-> 11, text |-> sHi], [id |-> 12, text |-> sYo]>>
                    [] e = eOpt -> <<[id |-> 13, text |-> sHi]>>
                    [] OTHER    -> <<>>,
         title |-> InitSrc[e].title,
         origText |-> Null, origTitle |-> Null, translated |-> FALSE]]

\* GlobalTranslator mounted with the default language: the language effect did
\* nothing (line 529) and the route effect set its timer (line 564)
GTAtRest ==
    /\ currentLanguage = EN
    /\ dom = InitDom
    /\ src = InitSrc
    /\ pendingOurMutations = {}
    /\ translatedNodes = [n \in {} |-> Null]
    /\ pendingTargets = <<>>
    /\ inflight = NoApply
    /\ timers = <<[kind |-> "route", due |-> 100, lang |-> EN, tracked |-> FALSE]>>
    /\ nextId = 14
    /\ events = 0
    /\ obsLog = <<>>
    /\ lastSwitch = EN
    /\ translationVersion = 0
    /\ rescanOwed = FALSE
    /\ scannedLang = Null
    /\ repeatScan = FALSE
    /\ isTranslating = FALSE
    /\ pathname = "/"

NoCacheOp == [op |-> "none", text |-> <<>>, lang |-> <<>>, value |-> Null]

CLAtRest ==
    /\ cacheLog = NoCacheOp
    /\ cacheOps = 0

\* the posts of the feed: "p1" and "p2", both written by "ann"
PostIds == {"p1", "p2"}

\* a key without a row in db.translation
NoRow == [present |-> FALSE, sourceHash |-> "", translatedContent |-> <<>>]

\* the unique keys (entityType, entityId, fieldName, targetLanguage) of the model
SrvKeys == {"Post"} \X PostIds \X {"plainText"} \X {EN, DE}

SVAtRest ==
    /\ dbPost = [id \in PostIds |-> IF id = "p1" THEN sHi ELSE sYo]
    /\ dbTranslation = [k \in SrvKeys |-> NoRow]
    /\ userCalls = <<>>
    /\ upserts = <<>>
    /\ srvEvents = 0

\* the client IPs of the model; "unknown" stands for a request without
\* x-forwarded-for and x-real-ip
ClientIps == {"10.0.0.1", "unknown"}

NoRecord == [present |-> FALSE, count |-> 0, resetTime |-> 0]

NoRequest == [ip |-> "", status |-> 0, retryAfter |-> "", remaining |-> 0]

RLAtRest ==
    /\ requestCounts = [ip \in ClientIps |-> NoRecord]
    /\ clock = 0
    /\ rlWindow = [ip \in ClientIps |-> [opened |-> 0, asked |-> 0]]
    /\ rlLog = NoRequest
    /\ rlRequests = [ip \in ClientIps |-> 0]

\* a page without a server language, on a browser that reports no language
\* and has nothing stored
PlainMount == [serverLanguage |-> Null, hasWindow |-> TRUE, lsThrows |-> FALSE,
               stored |-> Null, language |-> <<>>, userLanguage |-> Null]

NotMounted == [currentLanguage |-> Null, translationVersion |-> 0]

NoCtxCall == [op |-> "none", lang |-> <<>>, synced |-> FALSE]

CtxAtRest ==
    /\ mountIn = PlainMount
    /\ provider = NotMounted
    /\ localStore = Null
    /\ ctxLog = NoCtxCall
    /\ ctxCalls = 0

MoreAtRest ==
    /\ CLAtRest
    /\ SVAtRest
    /\ RLAtRest
    /\ CtxAtRest

InitTB ==
    /\ InitCache
    /\ TBAtRest
    /\ BTAtRest
    /\ GTAtRest
    /\ MoreAtRest

\* deepl-client translateBatch up to its await (lines 188-220)
TBCall(texts, targetLang, sourceLang) ==
    /\ tb.phase = "idle"
    /\ calls < MaxCalls
    /\ calls' = calls + 1
    /\ UNCHANGED <<srv, btVars, gtVars, moreVars>>
    /\ IF Len(texts) = 0
       THEN /\ tb' = [TBIdle EXCEPT !.phase = "done", !.lang = targetLang, !.src = sourceLang]
            /\ UNCHANGED cache
       ELSE IF Truthy(sourceLang) /\ getBaseLanguage(sourceLang) = getBaseLanguage(targetLang)
       THEN /\ tb' = [TBIdle EXCEPT !.phase = "done", !.texts = texts, !.lang = targetLang,
                                    !.src = sourceLang, !.result = texts]
            /\ UNCHANGED cache
       ELSE LET cacheResults == getBatchFromCache(cache.mem, cache.ls, texts, targetLang)
                toTranslate == ToTranslate(texts, cacheResults)
            IN  /\ cache' = [cache EXCEPT
                              !.mem = getBatchFromCacheMem(cache.mem, cache.ls, texts, targetLang)]
                /\ tb' = [phase |-> IF Len(toTranslate) = 0 THEN "done" ELSE "fetch",
                          texts |-> texts, lang |-> targetLang, src |-> sourceLang,
                          toTranslate |-> toTranslate, cacheResults |-> cacheResults,
                          result |-> IF Len(toTranslate) = 0
                                     THEN AllCachedResult(texts, cacheResults) ELSE <<>>]

\* deepl-client translateBatch after its await (lines 220-239)
TBFetchDone(net, lsOk) ==
    /\ tb.phase = "fetch"
    /\ LET translations == fetchTranslations(tb.toTranslate, tb.lang, tb.src, net)
       IN  IF translations = Throw
           THEN /\ tb' = [tb EXCEPT !.phase = "done", !.result = tb.texts]
                /\ UNCHANGED <<cache, srv>>
           ELSE /\ cache' = setBatchToCache(cache, CacheItems(tb.toTranslate, translations),
                                            tb.lang, lsOk)
                /\ tb' = [tb EXCEPT !.phase = "done",
                            !.result = FetchedResult(tb.texts,
                                MergeTranslations(tb.cacheResults, tb.toTranslate, translations, 1))]
                /\ UNCHANGED srv
    /\ UNCHANGED <<calls, btVars, gtVars, moreVars>>

\* the caller takes the result
TBReturn ==
    /\ tb.phase = "done"
    /\ tb' = TBIdle
    /\ UNCHANGED <<cache, calls, srv, btVars, gtVars, moreVars>>

\* any HTTP client posts texts to /api/translate and the route hands them to
\* the provider adapter (route.ts line 125)
RouteCall(texts, targetLang, hasKey, po) ==
    /\ tb.phase = "idle"
    /\ calls < MaxCalls
    /\ calls' = calls + 1
    /\ srv' = [texts |-> texts,
               result |-> RoutePOST(texts, targetLang, Null, TRUE, hasKey, po).translations]
    /\ UNCHANGED <<cache, tb, btVars, gtVars, moreVars>>

NextTB ==
    \/ \E texts \in TBInputs \ {<<>>}, hasKey \in BOOLEAN, po \in ProviderOutcomes :
          RouteCall(texts, FR, hasKey, po)
    \/ \E texts \in TBInputs, sourceLang \in {Null, EN, FR} : TBCall(texts, FR, sourceLang)
    \/ \E net \in NetOutcomes, lsOk \in BOOLEAN : TBFetchDone(net, lsOk)
    \/ TBReturn

SpecTB == InitTB /\ [][NextTB]_vars

\* C10: translateBatch of the client and of the server adapter returns an array
\* of the length of its input, and every empty or white-space-only position
\* comes back unchanged
SameShape(texts, result) ==
    /\ Len(result) = Len(texts)
    /\ \A i \in 1..Len(texts) : Trim(texts[i]) = <<>> => result[i] = texts[i]

C10_BatchKeepsShape ==
    /\ tb.phase = "done" => SameShape(tb.texts, tb.result)
    /\ SameShape(srv.texts, srv.result)

----------------------------------------------------------------------------
(* Client batching translator (deepl-client translateText / flushQueue) *)

\* deepl-client MAX_BATCH_SIZE
MAX_BATCH_SIZE == 50

BTTexts == {sHi, sBlank}
BTLangs == {DE, FR}

\* one outcome of the endpoint call per way flushQueue can go: translations,
\* the texts echoed by the server on a provider failure, a thrown error, and
\* an answer that lacks an element
BTNet == {"ok", "throw", "neterr", "cut"}

\* the promise of a translateText call
NewReq(text, targetLang, st, val, queued, busy) ==
    [text |-> text, lang |-> targetLang, st |-> st, val |-> val, queued |-> queued,
     sent |-> 0, net |-> "none", duringFlush |-> busy]

\* deepl-client translateText (lines 151-177) on S = [reqs, queue];
\* busy tells whether a flush is awaiting its fetch at the time of the call
translateText(S, text, targetLang, sourceLang, c, busy) ==
    IF Trim(text) = <<>>
    THEN [S EXCEPT !.reqs = Append(@, NewReq(text, targetLang, "resolved", text, FALSE, busy))]
    ELSE IF getBaseLanguage(sourceLang) = getBaseLanguage(targetLang)
    THEN [S EXCEPT !.reqs = Append(@, NewReq(text, targetLang, "resolved", text, FALSE, busy))]
    ELSE IF getFromCache(c.mem, c.ls, text, targetLang) # Null
    THEN [S EXCEPT !.reqs = Append(@, NewReq(text, targetLang, "resolved",
                                  getFromCache(c.mem, c.ls, text, targetLang), FALSE, busy))]
    ELSE [reqs  |-> Append(S.reqs, NewReq(text, targetLang, "pending", Null, TRUE, busy)),
          queue |-> Append(S.queue, Len(S.reqs) + 1)]

\* the i-th text of a burst: "Hi", "Yo", "Hi", ...
BurstText(i) == IF i % 2 = 1 THEN sHi ELSE sYo

\* MAX_BATCH_SIZE translateText calls made back to back by one caller; the
\* cache does not change in between, so each call sees the cache c
BurstCalls(S, targetLang, c, busy) ==
    LET one(i) == translateText([reqs |-> <<>>, queue |-> <<>>], BurstText(i), targetLang,
                                EN, c, busy).reqs[1]
        added == [i \in 1..MAX_BATCH_SIZE |-> one(i)]
        ids == [i \in 1..MAX_BATCH_SIZE |-> Len(S.reqs) + i]
        IsQueued(id) == added[id - Len(S.reqs)].queued
    IN  [reqs |-> S.reqs \o added, queue |-> S.queue \o SelectSeq(ids, IsQueued)]

\* deepl-client scheduleFlush (lines 245-254): the timer is armed if it was not
scheduleFlush(armed) == TRUE

\* flushQueue that leaves the taken requests in requestQueue
QueueAfterTake_Keeps(queue) == queue

\* deepl-client flushQueue line 266: requestQueue = []
QueueAfterTake(queue) == <<>>

\* flushQueue lines 269-274: the target languages in order of first appearance
LangOrder(requests) ==
    LET First(p) == \A q \in 1..(p - 1) : reqs[requests[q]].lang # reqs[requests[p]].lang
        firsts == SelectSeq([p \in 1..Len(requests) |-> p], First)
    IN  [k \in 1..Len(firsts) |-> reqs[requests[firsts[k]]].lang]

\* flushQueue lines 270-274: the requests of one language, in queue order
LangGroup(requests, lang) ==
    LET InGroup(id) == reqs[id].lang = lang
    IN  SelectSeq(requests, InGroup)

\* flushQueue lines 279-280: slices of at most MAX_BATCH_SIZE
ChunksOf(langRequests, lang) ==
    LET n == (Len(langRequests) + MAX_BATCH_SIZE - 1) \div MAX_BATCH_SIZE
        upTo(c) == IF c * MAX_BATCH_SIZE < Len(langRequests) THEN c * MAX_BATCH_SIZE
                   ELSE Len(langRequests)
    IN  [c \in 1..n |-> [lang |-> lang,
                         ids |-> SubSeq(langRequests, (c - 1) * MAX_BATCH_SIZE + 1, upTo(c))]]

\* flushQueue lines 277-281: every chunk of the flush, in the order it is sent
RECURSIVE AllChunks(_, _)
AllChunks(requests, langs) ==
    IF langs = <<>> THEN <<>>
    ELSE ChunksOf(LangGroup(requests, Head(langs)), Head(langs))
         \o AllChunks(requests, Tail(langs))

\* the fetch of a chunk is issued (flushQueue line 284)
MarkSent(rs, chunk) ==
    [i \in 1..Len(rs) |->
        IF IndexOf(chunk.ids, i) # 0 THEN [rs[i] EXCEPT !.sent = @ + 1] ELSE rs[i]]

\* Promise resolve / reject: a settled promise stays as it is
Settle(req, st, val, net) ==
    IF req.st = "pending" THEN [req EXCEPT !.st = st, !.val = val, !.net = net] ELSE req

\* a catch branch that rejects the promise
SettleOnError_Rejects(req, net) == Settle(req, "rejected", Null, net)

\* flushQueue lines 296-299: the catch branch for one request
SettleOnError(req, net) == Settle(req, "resolved", req.text, net)

\* a forEach that hands the first element of the answer to every request
ChunkTranslation_First(translations, index, req) ==
    OrElse(IF 1 <= Len(translations) THEN translations[1] ELSE Null, req.text)

\* flushQueue lines 288-292: the translation of the request at position index
ChunkTranslation(translations, index, req) ==
    OrElse(IF index <= Len(translations) THEN translations[index] ELSE Null, req.text)

InitBT ==
    /\ InitCache
    /\ TBAtRest
    /\ BTAtRest
    /\ GTAtRest
    /\ MoreAtRest

\* one translateText call
BTTranslate(text, targetLang) ==
    /\ turns < MaxTurns
    /\ turns' = turns + 1
    /\ \E S \in {translateText([reqs |-> reqs, queue |-> requestQueue], text, targetLang, EN,
                               cache, flushes # <<>>)} :
           /\ reqs' = S.reqs
           /\ requestQueue' = S.queue
           /\ flushTimeout' = IF S.queue # requestQueue THEN scheduleFlush(flushTimeout)
                              ELSE flushTimeout
    /\ cache' = [cache EXCEPT !.mem = getFromCacheMem(cache.mem, cache.ls, text, targetLang)]
    /\ UNCHANGED <<flushes, tbVars, gtVars, moreVars>>

\* MAX_BATCH_SIZE translateText calls in one turn of the event loop
BTBurst(targetLang) ==
    /\ targetLang = FR
    /\ turns < MaxTurns
    /\ turns' = turns + 1
    /\ \E S \in {BurstCalls([reqs |-> reqs, queue |-> requestQueue], targetLang, cache,
                            flushes # <<>>)} :
           /\ reqs' = S.reqs
           /\ requestQueue' = S.queue
           /\ flushTimeout' = IF S.queue # requestQueue THEN scheduleFlush(flushTimeout)
                              ELSE flushTimeout
    /\ cache' = [cache EXCEPT !.mem = getBatchFromCacheMem(cache.mem, cache.ls,
                                          <<sHi, sYo>>, targetLang)]
    /\ UNCHANGED <<flushes, tbVars, gtVars, moreVars>>

\* the flush timer fires (lines 250-253): flushQueue runs up to its first await
BTTimerFire ==
    /\ flushTimeout
    /\ flushTimeout' = FALSE
    /\ IF requestQueue = <<>>
       THEN UNCHANGED <<reqs, requestQueue, flushes>>
       ELSE \E chunks \in {AllChunks(requestQueue, LangOrder(requestQueue))} :
                /\ requestQueue' = QueueAfterTake(requestQueue)
                /\ flushes' = Append(flushes, chunks)
                /\ reqs' = MarkSent(reqs, Head(chunks))
    /\ UNCHANGED <<cache, turns, tbVars, gtVars, moreVars>>

\* the fetch of the head chunk of flush f settles (lines 284-300);
\* the next chunk of that flush, if any, is sent
\* flushQueue after the await of line 284: the loops of lines 277-280 move on to
\* the next chunk of flush f, or the flush ends
AfterChunk(fl, f) ==
    IF Tail(fl[f]) = <<>>
    THEN SubSeq(fl, 1, f - 1) \o SubSeq(fl, f + 1, Len(fl))
    ELSE [fl EXCEPT ![f] = Tail(fl[f])]

BTChunkDone(f, net, lsOk) ==
    /\ f \in 1..Len(flushes)
    /\ \E chunk \in {Head(flushes[f])}, rest \in {Tail(flushes[f])} :
       \E texts \in {[k \in 1..Len(chunk.ids) |-> reqs[chunk.ids[k]].text]} :
       \E translations \in {fetchTranslations(texts, chunk.lang, Null, net)} :
       \E results \in {[k \in 1..Len(chunk.ids) |->
                           ChunkTranslation(translations, k, reqs[chunk.ids[k]])]} :
       \E settled \in {[i \in 1..Len(reqs) |->
                         IF IndexOf(chunk.ids, i) = 0 THEN reqs[i]
                         ELSE IF translations = Throw THEN SettleOnError(reqs[i], net)
                         ELSE Settle(reqs[i], "resolved", results[IndexOf(chunk.ids, i)], net)]} :
           /\ cache' = IF translations = Throw THEN cache
                       ELSE setBatchToCache(cache,
                                [k \in 1..Len(chunk.ids) |-> <<texts[k], results[k]>>],
                                chunk.lang, lsOk)
           /\ reqs' = IF rest = <<>> THEN settled ELSE MarkSent(settled, Head(rest))
           /\ flushes' = AfterChunk(flushes, f)
    /\ UNCHANGED <<requestQueue, flushTimeout, turns, tbVars, gtVars, moreVars>>

NextBT ==
    \/ \E text \in BTTexts, targetLang \in BTLangs : BTTranslate(text, targetLang)
    \/ \E targetLang \in BTLangs : BTBurst(targetLang)
    \/ BTTimerFire
    \/ \E f \in 1..Len(flushes), net \in BTNet : BTChunkDone(f, net, TRUE)

SpecBT == InitBT /\ [][NextBT]_vars

\* the timer callback and the continuation of an awaited fetch are run by the
\* event loop whenever they are due
BTChunkSettles == \E f \in 1..Len(flushes) : flushes' = AfterChunk(flushes, f)

FairSpecBT ==
    /\ SpecBT
    /\ WF_vars(BTTimerFire)
    /\ WF_flushes(BTChunkSettles)

\* the requests that were put on the queue
Queued == {i \in 1..Len(reqs) : reqs[i].queued}

InQueue(i) == \E k \in 1..Len(requestQueue) : requestQueue[k] = i

\* i is in chunk number c of flush f
InChunk(i, f, c) == \E k \in 1..Len(flushes[f][c].ids) : flushes[f][c].ids[k] = i

\* number of places (the queue, the chunks of the flushes) that hold request i
Holders(i) ==
    Cardinality({k \in 1..Len(requestQueue) : requestQueue[k] = i})
    + Cardinality({fc \in UNION {{<<f, c>> : c \in 1..Len(flushes[f])} : f \in 1..Len(flushes)} :
                      InChunk(i, fc[1], fc[2])})

\* what the provider makes of the text of a request
ProviderTranslation(req) == Provider(req.text, toDeepLLanguage(toDeepLTarget(req.lang), TRUE))

AnyPending == \E i \in Queued : reqs[i].st = "pending"

C8_Settled ==
    \A i \in Queued :
        /\ reqs[i].st # "rejected"
        /\ reqs[i].st = "pending" => Holders(i) >= 1
        /\ reqs[i].st = "resolved" =>
              /\ reqs[i].net = "ok" => reqs[i].val = ProviderTranslation(reqs[i])
              /\ reqs[i].net \in {"throw", "neterr"} => reqs[i].val = reqs[i].text
              /\ reqs[i].net = "cut" => reqs[i].val \in {ProviderTranslation(reqs[i]), reqs[i].text}

\* C8: every request put on the queue by translateText stays pending only while
\* it waits in the queue or in a chunk whose call has not settled, is never
\* rejected, is resolved with the provider's translation or, if its element is
\* missing or its chunk's call failed, with its own text, and is settled in the end
C8_EveryRequestResolves == []C8_Settled /\ (AnyPending ~> ~AnyPending)

\* one request resolved with its text after a failed call, another with a translation
C8_Witness ==
    /\ \E i \in Queued : /\ reqs[i].st = "resolved"
                         /\ reqs[i].net = "neterr"
                         /\ reqs[i].val = reqs[i].text
    /\ \E j \in Queued : /\ reqs[j].st = "resolved"
                         /\ reqs[j].net = "ok"
                         /\ reqs[j].val = ProviderTranslation(reqs[j])
                         /\ reqs[j].val # reqs[j].text

C9_OnePlace ==
    \A i \in Queued :
        /\ reqs[i].sent <= 1
        /\ Holders(i) <= 1
        /\ reqs[i].st = "resolved" => reqs[i].sent = 1 /\ Holders(i) = 0
        /\ reqs[i].st = "pending" /\ reqs[i].sent = 1 =>
              \E f \in 1..Len(flushes) : InChunk(i, f, 1)
        /\ reqs[i].st = "pending" /\ reqs[i].sent = 0 =>
              \/ InQueue(i) /\ flushTimeout
              \/ \E f \in 1..Len(flushes) : \E c \in 2..Len(flushes[f]) : InChunk(i, f, c)

\* a call of translateText leaves the flushes in progress as they are
C9_NotMerged == Len(reqs') > Len(reqs) => flushes' = flushes

\* C9: every request put on the queue is in exactly one place until it is sent,
\* is sent in exactly one chunk, and a request that arrives while a flush is in
\* progress is not added to that flush: it waits in the queue with the timer armed
C9_ExactlyOneChunk == []C9_OnePlace /\ [][C9_NotMerged]_vars

\* a request that arrived while a flush was awaiting its fetch has been sent once
\* and resolved
C9_Witness ==
    \E i \in Queued : reqs[i].duringFlush /\ reqs[i].sent = 1 /\ reqs[i].st = "resolved"

\* every call a flush has still to make, or awaits, is for one target
\* language and holds at most MAX_BATCH_SIZE requests
ChunksWellFormed ==
    \A f \in 1..Len(flushes) : \A c \in 1..Len(flushes[f]) :
        /\ Len(flushes[f][c].ids) \in 1..MAX_BATCH_SIZE
        /\ \A k \in 1..Len(flushes[f][c].ids) :
               reqs[flushes[f][c].ids[k]].lang = flushes[f][c].lang

\* the call of the head chunk of a flush is answered: the request at
\* position k of the chunk is resolved with element k of the answer
PositionalDelivery ==
    \A f \in 1..Len(flushes) :
        flushes' = AfterChunk(flushes, f) =>
            \A chunk \in {Head(flushes[f])} :
            \A texts \in {[k \in 1..Len(chunk.ids) |-> reqs[chunk.ids[k]].text]} :
            \A translations \in {fetchTranslations(texts, chunk.lang, Null,
                                                   reqs'[chunk.ids[1]].net)} :
                translations # Throw =>
                    \A k \in 1..Len(translations) :
                        /\ reqs'[chunk.ids[k]].st = "resolved"
                        /\ reqs'[chunk.ids[k]].val = translations[k]

\* C30: each call of a flush is for exactly one target language and at most
\* MAX_BATCH_SIZE texts, and element i of the answer goes to request i of
\* the chunk
C30_ChunksByLanguageInOrder ==
    /\ []ChunksWellFormed
    /\ [][PositionalDelivery]_vars

\* a flush of 100 French requests: the first call of 50 was answered, "Hi"
\* and "Yo" each got their own translation, the second call of 50 is awaited
C30_Witness ==
    /\ Len(reqs) = 2 * MAX_BATCH_SIZE
    /\ Len(flushes) = 1 /\ Len(flushes[1]) = 1
    /\ Len(flushes[1][1].ids) = MAX_BATCH_SIZE
    /\ flushes[1][1].lang = FR
    /\ reqs[1].st = "resolved" /\ reqs[1].val = Provider(sHi, FR)
    /\ reqs[2].st = "resolved" /\ reqs[2].val = Provider(sYo, FR)
    /\ reqs[MAX_BATCH_SIZE + 1].st = "pending" /\ reqs[MAX_BATCH_SIZE + 1].sent = 1

----------------------------------------------------------------------------
(* Callers that repeat a translateText call.  "Aa" and "BB" are two texts   *)
(* a caller may pass; with any target language they get one cache key.      *)

sAa == <<65, 97>>
sBB == <<66, 66>>

RepeatTexts == {sHi, sAa, sBB}

\* two translateText calls, "Aa" and then "BB", made back to back by one caller
PairCalls(S, targetLang, c, busy) ==
    CHOOSE r \in {translateText(S1, sBB, targetLang, EN,
                                [c EXCEPT !.mem = getFromCacheMem(c.mem, c.ls, sAa, targetLang)],
                                busy) :
                    S1 \in {translateText(S, sAa, targetLang, EN, c, busy)}} : TRUE

BTPair(targetLang) ==
    /\ turns < MaxTurns
    /\ turns' = turns + 1
    /\ \E S \in {PairCalls([reqs |-> reqs, queue |-> requestQueue], targetLang, cache,
                           flushes # <<>>)} :
           /\ reqs' = S.reqs
           /\ requestQueue' = S.queue
           /\ flushTimeout' = IF S.queue # requestQueue THEN scheduleFlush(flushTimeout)
                              ELSE flushTimeout
    /\ cache' = [cache EXCEPT !.mem = getBatchFromCacheMem(cache.mem, cache.ls,
                                          <<sAa, sBB>>, targetLang)]
    /\ UNCHANGED <<flushes, tbVars, gtVars, moreVars>>

NextRepeat ==
    \/ \E text \in RepeatTexts, targetLang \in BTLangs : BTTranslate(text, targetLang)
    \/ \E targetLang \in BTLangs : BTPair(targetLang)
    \/ BTTimerFire
    \/ \E f \in 1..Len(flushes), net \in BTNet : BTChunkDone(f, net, TRUE)

SpecRepeat == InitBT /\ [][NextRepeat]_vars

\* call i was answered by the endpoint with the provider's translation
ResolvedByProvider(i) ==
    /\ reqs[i].st = "resolved"
    /\ reqs[i].net = "ok"
    /\ reqs[i].val = ProviderTranslation(reqs[i])

RepeatedCallFromCache ==
    \A j \in (Len(reqs) + 1)..Len(reqs') : \A i \in 1..Len(reqs) :
        /\ reqs[i].text = reqs'[j].text
        /\ reqs[i].lang = reqs'[j].lang
        /\ ResolvedByProvider(i)
        => /\ reqs'[j].st = "resolved"
           /\ reqs'[j].val = reqs[i].val
           /\ ~reqs'[j].queued
           /\ reqs'[j].sent = 0

\* C21: once a translateText call has resolved with the provider's translation,
\* a later call with the same text and target language resolves at once with
\* the same string, is not put on the queue and is sent in no call of the endpoint
C21_RepeatedCallServedFromCache == [][RepeatedCallFromCache]_vars

----------------------------------------------------------------------------
(* Global DOM translator (GlobalTranslator.tsx).  One action is one task of *)
(* the event loop: the mutation records a task produces are delivered to    *)
(* the observer, and the promise reactions it releases are run, before the  *)
(* next task starts.                                                        *)

tagName(e) ==
    CASE e = eP -> "P" [] e = eOpt -> "OPTION" [] e = eBtn -> "BUTTON" [] e = eUser -> "SPAN"

SKIP_ELEMENTS == {"SCRIPT", "STYLE", "CODE", "PRE", "KBD", "SAMP", "VAR",
                  "TEXTAREA", "INPUT", "NOSCRIPT", "IFRAME", "SVG", "MATH"}

MIN_TEXT_LENGTH == 2

\* the elements rendered with the attribute data-no-translate, with the class
\* notranslate, with contenteditable="true"
NoTranslateAttr == {eUser}
NotranslateClass == {}
ContentEditable == {}

\* the element opted out of translation
OptedOut(e) == e \in NoTranslateAttr \cup NotranslateClass

\* GlobalTranslator shouldSkipElement; every element of the page is a child of
\* document.body, which carries none of the marks the ancestor loop looks for
shouldSkipElement(e) ==
    \/ tagName(e) \in SKIP_ELEMENTS
    \/ e \in NoTranslateAttr
    \/ e \in NotranslateClass
    \/ e \in ContentEditable

\* \d, \s, \p{P}, \p{S} on the ASCII range
IsDigitSpacePunctSymbol(c) ==
    \/ IsWs(c)
    \/ c >= 48 /\ c <= 57
    \/ c >= 33 /\ c <= 47
    \/ c >= 58 /\ c <= 64
    \/ c >= 91 /\ c <= 96
    \/ c >= 123 /\ c <= 126

\* \w
IsWordChar(c) ==
    \/ c >= 48 /\ c <= 57
    \/ c >= 65 /\ c <= 90
    \/ c >= 97 /\ c <= 122
    \/ c = 95

\* [\w.-]
IsMailChar(c) == IsWordChar(c) \/ c = 46 \/ c = 45

StartsWith(s, prefix) == Len(s) >= Len(prefix) /\ SubSeq(s, 1, Len(prefix)) = prefix

\* /^https?:\/\// or /^www\./
LooksLikeUrl(s) ==
    \/ StartsWith(s, <<104, 116, 116, 112, 58, 47, 47>>)
    \/ StartsWith(s, <<104, 116, 116, 112, 115, 58, 47, 47>>)
    \/ StartsWith(s, <<119, 119, 119, 46>>)

\* /^[\w.-]+@[\w.-]+\.\w+$/
LooksLikeEmail(s) ==
    \E a \in 2..Len(s), d \in 3..Len(s) :
        /\ a + 1 < d /\ d < Len(s)
        /\ s[a] = 64 /\ s[d] = 46
        /\ \A i \in 1..(a - 1) : IsMailChar(s[i])
        /\ \A i \in (a + 1)..(d - 1) : IsMailChar(s[i])
        /\ \A i \in (d + 1)..Len(s) : IsWordChar(s[i])

\* GlobalTranslator shouldTranslateText
shouldTranslateText(text) ==
    \E trimmed \in {Trim(text)} :
        /\ Len(trimmed) >= MIN_TEXT_LENGTH
        /\ \E i \in 1..Len(trimmed) : ~IsDigitSpacePunctSymbol(trimmed[i])
        /\ ~LooksLikeUrl(trimmed)
        /\ ~LooksLikeEmail(trimmed)

\* the state the translator's functions work on
GTState ==
    [dom |-> dom, pendingOurMutations |-> pendingOurMutations,
     translatedNodes |-> translatedNodes, pendingTargets |-> pendingTargets,
     inflight |-> inflight, timers |-> timers, nextId |-> nextId, cache |-> cache,
     records |-> <<>>, log |-> <<>>, rescanOwed |-> rescanOwed,
     scannedLang |-> scannedLang, repeatScan |-> repeatScan,
     isTranslating |-> isTranslating]

\* the state when something outside the translator happens: the language or
\* the page changes, a call fails, a retranslation is asked for
EventState == [GTState EXCEPT !.scannedLang = Null, !.repeatScan = FALSE]

\* element.textContent
RECURSIVE Concat(_)
Concat(ss) == IF ss = <<>> THEN <<>> ELSE Head(ss) \o Concat(Tail(ss))

textContent(d, e) == Concat([k \in 1..Len(d[e].kids) |-> d[e].kids[k].text])

\* node.parentElement of a text node: 0 if it is not in the document
parentElement(d, n) ==
    IF \E e \in ElemSet : d[e].present /\ \E k \in 1..Len(d[e].kids) : d[e].kids[k].id = n
    THEN CHOOSE e \in ElemSet : d[e].present /\ \E k \in 1..Len(d[e].kids) : d[e].kids[k].id = n
    ELSE 0

\* node.textContent of a text node in the document
nodeText(d, n) ==
    LET e == parentElement(d, n)
    IN  IF e = 0 THEN <<>>
        ELSE d[e].kids[CHOOSE k \in 1..Len(d[e].kids) : d[e].kids[k].id = n].text

\* element.firstChild || element
firstChildOr(d, e) == IF d[e].kids = <<>> THEN e ELSE d[e].kids[1].id

\* WeakMap.get
MapGet(map, n) == IF n \in DOMAIN map THEN map[n] ELSE Null

\* GlobalTranslator getOriginalText of a text node
getOriginalText(d, n) ==
    LET parent == parentElement(d, n)
    IN  IF parent = 0 THEN Null
        ELSE IF Truthy(d[parent].origText) THEN d[parent].origText ELSE Null

\* a TranslationTarget; optOut records whether the node was inside an opted-out
\* element when the target was made
Target(type, node, attribute, originalText, optOut) ==
    [type |-> type, node |-> node, attribute |-> attribute, originalText |-> originalText,
     optOut |-> optOut]

\* extractTargets lines 168-180: the text nodes of element e the walker visits
TextTargets(W, e, lang) ==
    LET Wanted(kid) == /\ shouldTranslateText(kid.text)
                       /\ MapGet(W.translatedNodes, kid.id) # lang
        kids == SelectSeq(W.dom[e].kids, Wanted)
    IN  [k \in 1..Len(kids) |->
            Target("text", kids[k].id, "", OrElse(W.dom[e].origText, kids[k].text), OptedOut(e))]

\* extractTargets lines 185-198, for the attribute title
AttributeTargets(W, e) ==
    IF Truthy(W.dom[e].title) /\ shouldTranslateText(W.dom[e].title)
    THEN <<Target("attribute", e, "title", OrElse(W.dom[e].origTitle, W.dom[e].title),
                  OptedOut(e))>>
    ELSE <<>>

\* extractTargets lines 201-211
OptionTargets(W, e) ==
    IF tagName(e) = "OPTION" /\ shouldTranslateText(textContent(W.dom, e))
    THEN <<Target("text", firstChildOr(W.dom, e), "",
                  OrElse(W.dom[e].origText, textContent(W.dom, e)), OptedOut(e))>>
    ELSE <<>>

\* what the walker yields for element e when it meets it below the root
ElementTargets(W, e, lang) ==
    IF ~W.dom[e].present \/ shouldSkipElement(e) THEN <<>>
    ELSE AttributeTargets(W, e) \o OptionTargets(W, e) \o TextTargets(W, e, lang)

\* GlobalTranslator extractTargets: nextNode() never yields the root, and
\* acceptNode is not asked about it
extractTargets(W, root, lang) ==
    IF root = Body
    THEN ElementTargets(W, eP, lang) \o ElementTargets(W, eOpt, lang)
         \o ElementTargets(W, eBtn, lang) \o ElementTargets(W, eUser, lang)
    ELSE IF root \in ElemSet THEN TextTargets(W, root, lang)
    ELSE <<>>

\* clearTimeout(debounceTimeoutRef.current)
ClearDebounce(ts) ==
    LET Untracked(t) == ~t.tracked
    IN  SelectSeq(ts, Untracked)

\* debounceTimeoutRef.current = setTimeout(processPendingTargets, delay), the
\* timer the ref pointed to being left alone
SetDebounce(ts, delay, lang) ==
    [i \in 1..Len(ts) |-> [ts[i] EXCEPT !.tracked = FALSE]]
    \o <<[kind |-> "process", due |-> delay, lang |-> lang, tracked |-> TRUE]>>

\* GlobalTranslator scheduleTranslation
scheduleTranslation(W, targets, immediate, lang) ==
    [W EXCEPT !.pendingTargets = @ \o targets,
              !.timers = SetDebounce(ClearDebounce(@), IF immediate THEN 0 ELSE 10, lang)]

\* GlobalTranslator scanFullPage
\* the scan is on record: it repeats the scan before it if that one was in the
\* same language and nothing of it is still pending, in flight or scheduled
Scanned(W, lang) ==
    [W EXCEPT !.rescanOwed = FALSE,
              !.scannedLang = lang,
              !.repeatScan = /\ W.scannedLang = lang
                             /\ W.inflight = NoApply
                             /\ W.pendingTargets = <<>>
                             /\ \A i \in 1..Len(W.timers) : W.timers[i].kind # "process"]

scanFullPage(W, lang) ==
    IF lang = EN THEN W
    ELSE IF extractTargets(W, Body, lang) = <<>> THEN Scanned(W, lang)
    ELSE scheduleTranslation(Scanned(W, lang), extractTargets(W, Body, lang), TRUE, lang)

\* a MutationRecord queued for the observer; self tells who made the mutation
Record(type, target, added, self) ==
    [type |-> type, target |-> target, added |-> added, self |-> self]

\* textNode.textContent = text; a node outside the document changes unobserved
SetNodeText(W, n, text, self) ==
    LET e == parentElement(W.dom, n)
    IN  IF e = 0 THEN W
        ELSE [W EXCEPT !.dom[e].kids = [k \in 1..Len(@) |->
                                           IF @[k].id = n THEN [@[k] EXCEPT !.text = text]
                                           ELSE @[k]],
                       !.records = Append(@, Record("characterData", n, 0, self))]

\* element.setAttribute('title', value)
SetTitle(W, e, value, self) ==
    [W EXCEPT !.dom[e].title = value,
              !.records = Append(@, Record("attributes", e, 0, self))]

\* element.textContent = text, text not empty: one new text node replaces the children
SetElementText(W, e, text, self) ==
    [W EXCEPT !.dom[e].kids = <<[id |-> W.nextId, text |-> text]>>,
              !.nextId = @ + 1,
              !.records = Append(@, Record("childList", e, W.nextId, self))]

\* applyTranslations that stores the original of every text target it applies
ApplyTextTarget_Overwrites(W, target, translation, lang) ==
    LET parent == parentElement(W.dom, target.node)
        W1 == IF parent # 0
              THEN [W EXCEPT !.dom[parent].origText = target.originalText] ELSE W
        W2 == SetNodeText([W1 EXCEPT !.pendingOurMutations = @ \cup {target.node}],
                          target.node, translation, TRUE)
        W3 == [W2 EXCEPT !.translatedNodes =
                  [n \in DOMAIN @ \cup {target.node} |->
                      IF n = target.node THEN lang ELSE @[n]]]
    IN  IF parent # 0 THEN [W3 EXCEPT !.dom[parent].translated = TRUE] ELSE W3

\* applyTranslations lines 267-284: a text target always names a text node,
\* because an element without children has no text to translate
ApplyTextTarget(W, target, translation, lang) ==
    LET parent == parentElement(W.dom, target.node)
        W1 == IF parent # 0 /\ W.dom[parent].origText = Null
              THEN [W EXCEPT !.dom[parent].origText = target.originalText] ELSE W
        W2 == SetNodeText([W1 EXCEPT !.pendingOurMutations = @ \cup {target.node}],
                          target.node, translation, TRUE)
        W3 == [W2 EXCEPT !.translatedNodes =
                  [n \in DOMAIN @ \cup {target.node} |->
                      IF n = target.node THEN lang ELSE @[n]]]
    IN  IF parent # 0 THEN [W3 EXCEPT !.dom[parent].translated = TRUE] ELSE W3

\* the write of a translated attribute of applyTranslations (line 292)
WriteAttribute(W, e, translation) == SetTitle(W, e, translation, TRUE)

\* applyTranslations lines 285-293
ApplyAttributeTarget(W, target, translation) ==
    LET e == target.node
        W1 == IF W.dom[e].origTitle = Null
              THEN [W EXCEPT !.dom[e].origTitle = target.originalText] ELSE W
    IN  WriteAttribute(W1, e, translation)

\* applyTranslations lines 261-294 for one target
ApplyTarget(W, target, translation, lang) ==
    IF ~Truthy(translation) \/ translation = target.originalText THEN W
    ELSE IF target.type = "text" THEN ApplyTextTarget(W, target, translation, lang)
    ELSE ApplyAttributeTarget(W, target, translation)

\* [...new Set(targets.map(t => t.originalText))]
UniqueTexts(targets) ==
    LET First(i) == \A j \in 1..(i - 1) : targets[j].originalText # targets[i].originalText
        firsts == SelectSeq([i \in 1..Len(targets) |-> i], First)
    IN  [k \in 1..Len(firsts) |-> targets[firsts[k]].originalText]

\* translationMap.get(text), lines 255-258 and 262
TranslationOf(uniqueTexts, translations, text) ==
    LET i == IndexOf(uniqueTexts, text)
    IN  IF i = 0 \/ i > Len(translations) THEN Null ELSE translations[i]

\* the forEach of line 261; each round works on the state the round before left
RECURSIVE ApplyTargets(_, _, _, _, _)
ApplyTargets(W, targets, uniqueTexts, translations, lang) ==
    IF targets = <<>> THEN W
    ELSE CHOOSE r \in {ApplyTargets(next, Tail(targets), uniqueTexts, translations, lang) :
                        next \in {ApplyTarget(W, Head(targets),
                                              TranslationOf(uniqueTexts, translations,
                                                            Head(targets).originalText),
                                              lang)}} : TRUE

\* what handleMutations did with one record: whether its target was marked
\* when the record came up, whether the record was skipped, whether the handler
\* wrote a cached translation back, and how many targets it made of it
LogEntry(rec, marked, skipped, reapplied, made) ==
    [target |-> rec.target, type |-> rec.type, self |-> rec.self, marked |-> marked,
     skipped |-> skipped, reapplied |-> reapplied, made |-> made]

\* handleMutations that leaves the mark in the set
ConsumeMark_Keeps(marks, n) == marks

\* handleMutations line 348: pendingOurMutations.delete(mutation.target)
ConsumeMark(marks, n) == marks \ {n}

\* handleMutations that writes the cached translation back without marking the node
HandleCharacterData_Unmarked(W, rec, lang) ==
    LET node == rec.target
        text == nodeText(W.dom, node)
        original == getOriginalText(W.dom, node)
        cached == getFromCache(W.cache.mem, W.cache.ls, original, lang)
    IN  IF Truthy(original) /\ text = original
        THEN LET W1 == [W EXCEPT !.cache.mem =
                           getFromCacheMem(W.cache.mem, W.cache.ls, original, lang)]
             IN  IF Truthy(cached)
                 THEN [W |-> [SetNodeText(W1, node, cached, TRUE)
                              EXCEPT !.translatedNodes =
                                 [n \in DOMAIN @ \cup {node} |-> IF n = node THEN lang ELSE @[n]],
                                     !.log = Append(@, LogEntry(rec, FALSE, FALSE, TRUE, 0))],
                       targets |-> <<>>]
                 ELSE [W |-> [W1 EXCEPT !.log = Append(@, LogEntry(rec, FALSE, FALSE, FALSE, 0))],
                       targets |-> <<>>]
        ELSE IF shouldTranslateText(text)
        THEN [W |-> [W EXCEPT !.log = Append(@, LogEntry(rec, FALSE, FALSE, FALSE, 1))],
              targets |-> <<Target("text", node, "", text,
                                   parentElement(W.dom, node) # 0
                                   /\ OptedOut(parentElement(W.dom, node)))>>]
        ELSE [W |-> [W EXCEPT !.log = Append(@, LogEntry(rec, FALSE, FALSE, FALSE, 0))],
              targets |-> <<>>]

\* handleMutations lines 359-380: the text of a node changed
HandleCharacterData(W, rec, lang) ==
    LET node == rec.target
        text == nodeText(W.dom, node)
        original == getOriginalText(W.dom, node)
        cached == getFromCache(W.cache.mem, W.cache.ls, original, lang)
    IN  IF Truthy(original) /\ text = original
        THEN LET W1 == [W EXCEPT !.cache.mem =
                           getFromCacheMem(W.cache.mem, W.cache.ls, original, lang)]
             IN  IF Truthy(cached)
                 THEN [W |-> [SetNodeText([W1 EXCEPT !.pendingOurMutations = @ \cup {node}],
                                          node, cached, TRUE)
                              EXCEPT !.translatedNodes =
                                 [n \in DOMAIN @ \cup {node} |-> IF n = node THEN lang ELSE @[n]],
                                     !.log = Append(@, LogEntry(rec, FALSE, FALSE, TRUE, 0))],
                       targets |-> <<>>]
                 ELSE [W |-> [W1 EXCEPT !.log = Append(@, LogEntry(rec, FALSE, FALSE, FALSE, 0))],
                       targets |-> <<>>]
        ELSE IF shouldTranslateText(text)
        THEN [W |-> [W EXCEPT !.log = Append(@, LogEntry(rec, FALSE, FALSE, FALSE, 1))],
              targets |-> <<Target("text", node, "", text,
                                   parentElement(W.dom, node) # 0
                                   /\ OptedOut(parentElement(W.dom, node)))>>]
        ELSE [W |-> [W EXCEPT !.log = Append(@, LogEntry(rec, FALSE, FALSE, FALSE, 0))],
              targets |-> <<>>]

\* handleMutations lines 381-397: the attribute title changed
HandleAttributes(W, rec) ==
    LET element == rec.target
        value == W.dom[element].title
    IN  IF Truthy(value) /\ shouldTranslateText(value)
        THEN [W |-> [W EXCEPT !.log = Append(@, LogEntry(rec, FALSE, FALSE, FALSE, 1))],
              targets |-> <<Target("attribute", element, "title", value, OptedOut(element))>>]
        ELSE [W |-> [W EXCEPT !.log = Append(@, LogEntry(rec, FALSE, FALSE, FALSE, 0))],
              targets |-> <<>>]

\* handleMutations lines 352-358: a node was added
HandleChildList(W, rec, lang) ==
    LET made == extractTargets(W, rec.added, lang)
    IN  [W |-> [W EXCEPT !.log = Append(@, LogEntry(rec, FALSE, FALSE, FALSE, Len(made)))],
         targets |-> made]

\* handleMutations lines 345-397 for one record
HandleRecord(W, rec, lang) ==
    IF rec.target \in W.pendingOurMutations
    THEN [W |-> [W EXCEPT !.pendingOurMutations = ConsumeMark(@, rec.target),
                          !.log = Append(@, LogEntry(rec, TRUE, TRUE, FALSE, 0))],
          targets |-> <<>>]
    ELSE IF rec.type = "childList" THEN HandleChildList(W, rec, lang)
    ELSE IF rec.type = "characterData" THEN HandleCharacterData(W, rec, lang)
    ELSE HandleAttributes(W, rec)

RECURSIVE HandleRecords(_, _, _, _)
HandleRecords(W, recs, targets, lang) ==
    IF recs = <<>> THEN [W |-> W, targets |-> targets]
    ELSE CHOOSE r \in {HandleRecords(one.W, Tail(recs), targets \o one.targets, lang) :
                        one \in {HandleRecord(W, Head(recs), lang)}} : TRUE

\* GlobalTranslator handleMutations on the records queued so far
handleMutations(W, lang) ==
    CHOOSE r \in {IF done.targets # <<>>
                  THEN scheduleTranslation(done.W, done.targets, FALSE, lang)
                  ELSE done.W :
                  done \in {HandleRecords([W EXCEPT !.records = <<>>], W.records, <<>>,
                                          lang)}} : TRUE

\* the observer's callback runs as long as mutations were recorded
RECURSIVE Deliver(_, _)
Deliver(W, lang) ==
    CHOOSE r \in {IF now.records = <<>> THEN now
                  ELSE Deliver(handleMutations(now, lang), lang) : now \in {W}} : TRUE

\* processPendingTargets whose .finally does not look at the queue
ProcessingFinally_NoRearm(W, lang) == [W EXCEPT !.inflight = NoApply]

\* processPendingTargets whose callback runs only after an apply that translated
ProcessingFinally_ThenOnly(W, lang) ==
    IF \A e \in ElemSet : ~W.dom[e].translated THEN W
    ELSE IF W.pendingTargets # <<>>
    THEN [W EXCEPT !.inflight = NoApply, !.timers = SetDebounce(@, 10, lang)]
    ELSE [W EXCEPT !.inflight = NoApply]

\* processPendingTargets lines 314-321: the .finally callback of the closure of lang
ProcessingFinally(W, lang) ==
    IF W.pendingTargets # <<>>
    THEN [W EXCEPT !.inflight = NoApply, !.timers = SetDebounce(@, 10, lang)]
    ELSE [W EXCEPT !.inflight = NoApply]

\* applyTranslations that leaves the busy flag as it is
ClearBusy_Never(W) == W

\* applyTranslations lines 297-299: finally { setIsTranslating(false) }
ClearBusy(W) == [W EXCEPT !.isTranslating = FALSE]

\* applyTranslations from line 254 on, for the call `call` whose translateBatch
\* returned translations, and the reactions that follow in the same task: the
\* observer (of the render of obsLang) is notified of the writes, then .finally
\* runs, then the observer is notified of what its own callback wrote
ApplyComplete(W, call, translations, obsLang) ==
    CHOOSE r \in {Deliver(ProcessingFinally(observed, call.lang), obsLang) :
                  observed \in {IF written.records = <<>> THEN written
                                ELSE handleMutations(written, obsLang) :
                                written \in {ClearBusy(ApplyTargets(W, call.targets, call.texts,
                                                                    result, call.lang)) :
                                             result \in {translations}}}} : TRUE

\* applyTranslations lines 246-251 and translateBatch up to its await
ApplyStart(W, targets, lang, obsLang) ==
    LET Call(uniqueTexts, cacheResults) ==
            [lang |-> lang, targets |-> targets, texts |-> uniqueTexts,
             toTranslate |-> ToTranslate(uniqueTexts, cacheResults),
             cacheResults |-> cacheResults]
        Started(call) ==
            [W EXCEPT !.cache.mem = getBatchFromCacheMem(W.cache.mem, W.cache.ls,
                                                         call.texts, lang),
                      !.inflight = call,
                      !.isTranslating = TRUE]
    IN  CHOOSE r \in
            {IF call.toTranslate = <<>>
             THEN ApplyComplete(Started(call), call,
                                AllCachedResult(call.texts, call.cacheResults), obsLang)
             ELSE Started(call) :
             call \in {Call(uniqueTexts,
                            getBatchFromCache(W.cache.mem, W.cache.ls, uniqueTexts, lang)) :
                       uniqueTexts \in {UniqueTexts(targets)}}} : TRUE

\* processPendingTargets that does not look at isProcessingRef
processPendingTargets_Unguarded(W, lang, obsLang) ==
    IF W.pendingTargets = <<>> THEN W
    ELSE IF lang = EN THEN [W EXCEPT !.pendingTargets = <<>>]
    ELSE ApplyStart([W EXCEPT !.pendingTargets = <<>>], W.pendingTargets, lang, obsLang)

\* GlobalTranslator processPendingTargets of the render of lang
processPendingTargets(W, lang, obsLang) ==
    IF W.inflight # NoApply \/ W.pendingTargets = <<>> THEN W
    ELSE IF lang = EN THEN [W EXCEPT !.pendingTargets = <<>>]
    ELSE ApplyStart([W EXCEPT !.pendingTargets = <<>>], W.pendingTargets, lang, obsLang)

\* translateBatch after its await (lines 220-239), for the call in flight
TranslateBatchResult(call, translations) ==
    IF translations = Throw THEN call.texts
    ELSE FetchedResult(call.texts,
                       MergeTranslations(call.cacheResults, call.toTranslate, translations, 1))

\* revertTranslations lines 433-439 / resetToOriginalForRetranslation lines
\* 465-470 for one element; keep tells whether data-original-text stays
RestoreText(W, e, keep) ==
    LET original == W.dom[e].origText
        W1 == IF Truthy(original) /\ textContent(W.dom, e) # original
              THEN SetElementText([W EXCEPT !.pendingOurMutations =
                                       @ \cup {firstChildOr(W.dom, e)}],
                                  e, original, TRUE)
              ELSE W
    IN  IF ~W.dom[e].present \/ original = Null THEN W
        ELSE [W1 EXCEPT !.dom[e].origText = IF keep THEN @ ELSE Null,
                        !.dom[e].translated = FALSE]

\* revertTranslations lines 445-449 / resetToOriginalForRetranslation lines 476-479
RestoreAttribute(W, e, keep) ==
    LET original == W.dom[e].origTitle
    IN  IF ~W.dom[e].present \/ ~Truthy(original) THEN W
        ELSE [SetTitle(W, e, original, TRUE) EXCEPT
                 !.dom[e].origTitle = IF keep THEN @ ELSE Null]

\* the querySelectorAll(...).forEach of lines 432 and 464 over the elements es
RECURSIVE RestoreTexts(_, _, _)
RestoreTexts(W, es, keep) ==
    IF es = <<>> THEN W
    ELSE CHOOSE r \in {RestoreTexts(next, Tail(es), keep) :
                        next \in {RestoreText(W, Head(es), keep)}} : TRUE

\* the querySelectorAll(...).forEach of lines 444 and 475 over the elements es
RECURSIVE RestoreAttributes(_, _, _)
RestoreAttributes(W, es, keep) ==
    IF es = <<>> THEN W
    ELSE CHOOSE r \in {RestoreAttributes(next, Tail(es), keep) :
                        next \in {RestoreAttribute(W, Head(es), keep)}} : TRUE

\* both loops over the elements in document order
RestoreAll(W, keep) ==
    RestoreAttributes(RestoreTexts(W, <<eP, eOpt, eBtn, eUser>>, keep),
                      <<eP, eOpt, eBtn, eUser>>, keep)

\* GlobalTranslator revertTranslations
revertTranslations(W) == RestoreAll(W, FALSE)

\* GlobalTranslator resetToOriginalForRetranslation
resetToOriginalForRetranslation(W) ==
    RestoreAll([W EXCEPT !.translatedNodes = [n \in {} |-> Null]], TRUE)

\* setTimeout(callback of the render of lang, delay)
SetTimer(W, kind, delay, lang) ==
    [W EXCEPT !.timers = Append(@, [kind |-> kind, due |-> delay, lang |-> lang,
                                    tracked |-> FALSE])]

\* the language effect (lines 510-559) after the first mount
LanguageEffect(W, previousLanguage, lang) ==
    IF lang = EN THEN revertTranslations(W)
    ELSE IF previousLanguage = lang THEN W
    ELSE IF previousLanguage # EN
    THEN SetTimer(resetToOriginalForRetranslation(W), "scan", 50, lang)
    ELSE scanFullPage(W, lang)

\* the cleanups of the observer effect (lines 496-501) and of the route effect
\* (line 570) that React runs before the effects of the new render
EffectCleanups(W) ==
    LET Kept(t) == t.kind # "route"
    IN  [W EXCEPT !.timers = SelectSeq(ClearDebounce(@), Kept)]

\* React commits the render of lang: cleanups, then the observer effect, the
\* language effect and the route effect, then the observer created by this
\* render is notified
Commit(W, previousLanguage, lang) ==
    Deliver(SetTimer(LanguageEffect(EffectCleanups(W), previousLanguage, lang),
                     "route", 100, lang), lang)

\* pendingOurMutations and translatedNodes are weak: what they hold about a
\* node that left the document is never looked up again
Attached(d) == UNION {{d[e].kids[k].id : k \in 1..Len(d[e].kids)} : e \in ElemSet}

Collect(W) ==
    [W EXCEPT !.pendingOurMutations = @ \cap (Attached(W.dom) \cup ElemSet),
              !.translatedNodes = [n \in DOMAIN @ \cap Attached(W.dom) |-> @[n]]]

\* the state after a task that left the translator in W
GTSet(W) ==
    \E C \in {Collect(W)} :
        /\ dom' = C.dom
        /\ pendingOurMutations' = C.pendingOurMutations
        /\ translatedNodes' = C.translatedNodes
        /\ pendingTargets' = C.pendingTargets
        /\ inflight' = C.inflight
        /\ timers' = C.timers
        /\ nextId' = C.nextId
        /\ cache' = C.cache
        /\ obsLog' = C.log
        /\ rescanOwed' = C.rescanOwed
        /\ scannedLang' = C.scannedLang
        /\ repeatScan' = C.repeatScan
        /\ isTranslating' = C.isTranslating

\* TranslationContext setLanguage (lines 122-137) called in a render that
\* shows current: the state it sets and whether it calls syncToProfile
setLanguage(current, version, lang) ==
    LET normalized == getBaseLanguage(lang)
    IN  IF ~isLanguageSupported(normalized)
        THEN [currentLanguage |-> EN, translationVersion |-> version, synced |-> FALSE]
        ELSE IF normalized # current
        THEN [currentLanguage |-> normalized, translationVersion |-> version + 1,
              synced |-> TRUE]
        ELSE [currentLanguage |-> current, translationVersion |-> version, synced |-> FALSE]

\* TranslationContext setLanguage (lines 122-137): the language it sets
NewLanguage(lang) ==
    IF isLanguageSupported(getBaseLanguage(lang)) THEN getBaseLanguage(lang) ELSE EN

\* TranslationContext setLanguage(lang) and the render it causes
GTSetLanguage(lang) ==
    /\ events < MaxEvents
    /\ NewLanguage(lang) # currentLanguage
    /\ events' = events + 1
    /\ currentLanguage' = NewLanguage(lang)
    /\ lastSwitch' = currentLanguage
    /\ translationVersion' = setLanguage(currentLanguage, translationVersion, lang).translationVersion
    /\ GTSet(Commit(EventState, currentLanguage, NewLanguage(lang)))
    /\ UNCHANGED <<pathname, src, tbVars, btVars, moreVars>>

\* a timer fires when it is due, after the timers set before it that are due
CanFire(ts, i) == ts[i].due = 0 /\ \A j \in 1..(i - 1) : ts[j].due > 0

\* the time left until the next timer is due
NextDue(ts) == CHOOSE d \in {ts[i].due : i \in 1..Len(ts)} : \A i \in 1..Len(ts) : d <= ts[i].due

\* time passes until the next timer is due; whatever else happens, happens at
\* one of these moments
GTTimePasses ==
    /\ timers # <<>>
    /\ NextDue(timers) > 0
    /\ timers' = [i \in 1..Len(timers) |-> [timers[i] EXCEPT !.due = @ - NextDue(timers)]]
    /\ UNCHANGED <<currentLanguage, dom, src, pendingOurMutations, translatedNodes,
                   pendingTargets, inflight, nextId, events, obsLog, lastSwitch,
                   translationVersion, rescanOwed, scannedLang, repeatScan, isTranslating,
                   pathname, cache, tbVars, btVars, moreVars>>

RemoveAt(ts, i) == SubSeq(ts, 1, i - 1) \o SubSeq(ts, i + 1, Len(ts))

\* the callback of a timer: processPendingTargets, the scan of line 550, the
\* route effect's callback (lines 565-567)
TimerCallback(W, t, obsLang) ==
    IF t.kind = "process" THEN processPendingTargets(W, t.lang, obsLang)
    ELSE IF t.kind = "scan" THEN scanFullPage(W, t.lang)
    ELSE IF t.lang # EN THEN scanFullPage(W, t.lang)
    ELSE W

GTTimer(i) ==
    /\ i \in 1..Len(timers)
    /\ CanFire(timers, i)
    /\ GTSet(Deliver(TimerCallback([GTState EXCEPT !.timers = RemoveAt(timers, i)],
                                   timers[i], currentLanguage), currentLanguage))
    /\ UNCHANGED <<pathname, currentLanguage, src, events, lastSwitch, translationVersion,
                   tbVars, btVars, moreVars>>

\* what the endpoint does with the call of the translator
GTNet == {"ok", "neterr"}

\* the fetch of the translateBatch call in flight settles
GTApplyDone(net) ==
    /\ inflight # NoApply
    /\ net # "ok" => events < MaxEvents
    /\ events' = IF net = "ok" THEN events ELSE events + 1
    /\ \E translations \in {fetchTranslations(inflight.toTranslate, inflight.lang, Null, net)} :
       \E W \in {IF translations = Throw THEN EventState
                 ELSE [GTState EXCEPT !.cache =
                          setBatchToCache(cache, CacheItems(inflight.toTranslate, translations),
                                          inflight.lang, TRUE)]} :
       \E result \in {TranslateBatchResult(inflight, translations)} :
           GTSet(ApplyComplete(W, inflight, result, currentLanguage))
    /\ UNCHANGED <<pathname, currentLanguage, src, lastSwitch, translationVersion, tbVars, btVars,
                   moreVars>>

\* the framework renders the <span data-no-translate>@jo</span> into the page
GTFrameworkInsert ==
    /\ events < MaxEvents
    /\ ~src[eUser].present
    /\ events' = events + 1
    /\ src' = [src EXCEPT ![eUser] = [present |-> TRUE, texts |-> <<sAtJo>>,
                                      ids |-> <<nextId>>, title |-> Null]]
    /\ GTSet(Deliver([EventState EXCEPT
                         !.dom[eUser].present = TRUE,
                         !.dom[eUser].kids = <<[id |-> nextId, text |-> sAtJo]>>,
                         !.nextId = @ + 1,
                         !.records = <<Record("childList", Body, eUser, FALSE)>>],
                     currentLanguage))
    /\ UNCHANGED <<pathname, currentLanguage, lastSwitch, translationVersion, tbVars, btVars, moreVars>>

\* the text updates the framework makes: the user name becomes "@al", the
\* second text of the paragraph becomes "Hi"
FrameworkTexts == {<<eUser, 1, sAtAl>>, <<eP, 2, sHi>>}

\* the framework sets the data of the k-th text node it rendered into e
GTFrameworkSetText(e, k, text) ==
    /\ events < MaxEvents
    /\ src[e].present
    /\ src[e].texts[k] # text
    /\ events' = events + 1
    /\ src' = [src EXCEPT ![e].texts[k] = text]
    /\ GTSet(Deliver(SetNodeText(EventState, src[e].ids[k], text, FALSE), currentLanguage))
    /\ UNCHANGED <<pathname, currentLanguage, lastSwitch, translationVersion, tbVars, btVars, moreVars>>

InitGT ==
    /\ InitCache
    /\ TBAtRest
    /\ BTAtRest
    /\ GTAtRest
    /\ MoreAtRest

NextGT ==
    \/ \E lang \in {EN, DE, FR} : GTSetLanguage(lang)
    \/ GTTimePasses
    \/ \E i \in 1..Len(timers) : GTTimer(i)
    \/ \E net \in GTNet : GTApplyDone(net)
    \/ GTFrameworkInsert
    \/ \E f \in FrameworkTexts : GTFrameworkSetText(f[1], f[2], f[3])

SpecGT == InitGT /\ [][NextGT]_vars

\* the targets queued for translation or sent with the call in flight
TargetsAtWork ==
    {pendingTargets[i] : i \in 1..Len(pendingTargets)}
    \cup {inflight.targets[i] : i \in 1..Len(inflight.targets)}

\* C1: no translation target is made of the text or the title of an element
\* that carries data-no-translate or the class notranslate, on any path
C1_OptOutNeverTargeted == \A t \in TargetsAtWork : ~t.optOut

\* the texts and titles the page shows
ShownTexts ==
    UNION {{dom[e].kids[k].text : k \in 1..Len(dom[e].kids)} : e \in ElemSet}
    \cup {dom[e].title : e \in {x \in ElemSet : dom[x].title # Null}}

\* element e shows what the framework rendered into it, and carries no marker
Restored(e) ==
    /\ [k \in 1..Len(dom[e].kids) |-> dom[e].kids[k].text] = src[e].texts
    /\ dom[e].title = src[e].title
    /\ dom[e].origText = Null
    /\ dom[e].origTitle = Null
    /\ ~dom[e].translated

AllRestored == \A e \in ElemSet : Restored(e)

RevertRestores == currentLanguage # EN /\ currentLanguage' = EN => AllRestored'

\* C2: the switch from a non-default language to the default language leaves
\* every text and title as it was before translation, and no data-original-text,
\* data-original-title or translated marker in the document
C2_RevertRestoresThePage == [][RevertRestores]_vars

\* no scan, timer or network call is outstanding
Quiescent == timers = <<>> /\ inflight = NoApply

\* the provider's mark of the language
MarkOf(lang) == LangMark(toDeepLLanguage(toDeepLTarget(lang), TRUE))

\* C3: after a switch from one non-default language to another, once every
\* timer and call has completed, every text and title shown is a source text
\* or the translation of a source text into the new language
C3_ShowsTheNewLanguage ==
    Quiescent /\ currentLanguage # EN /\ lastSwitch # EN =>
        \A t \in ShownTexts :
            IsTranslated(t) => MarkCount(t) = 1 /\ Head(t) = MarkOf(currentLanguage)

StaleResponseIgnored ==
    inflight # NoApply /\ inflight' = NoApply /\ inflight.lang # currentLanguage => dom' = dom

\* C4: the response of a translation call whose language is no longer the
\* current language writes nothing into the document
C4_StaleResponseNotApplied == [][StaleResponseIgnored]_vars

\* C5: the originalText of every target queued or sent is source text, never a
\* translation the provider returned
C5_OriginalTextIsSource == \A t \in TargetsAtWork : ~IsTranslated(t.originalText)

\* C6: every record of a mutation the translator made itself is skipped by
\* handleMutations
C6_OwnMutationsSkipped == \A i \in 1..Len(obsLog) : obsLog[i].self => obsLog[i].skipped

\* the next record of the task after record i that has the same target, or 0
NextSameTarget(i) ==
    IF \E j \in (i + 1)..Len(obsLog) : obsLog[j].target = obsLog[i].target
    THEN CHOOSE j \in (i + 1)..Len(obsLog) :
            /\ obsLog[j].target = obsLog[i].target
            /\ \A k \in (i + 1)..(j - 1) : obsLog[k].target # obsLog[i].target
    ELSE 0

\* C7: a record is skipped exactly if its target is marked, and the skip takes
\* the mark away: the next record with the same target finds the node marked
\* only if the handler itself marked it again in between
C7_MarkIsOneShot ==
    \A i \in 1..Len(obsLog) :
        /\ obsLog[i].skipped = obsLog[i].marked
        /\ NextSameTarget(i) # 0 =>
              obsLog[NextSameTarget(i)].marked = obsLog[i].reapplied

\* two records of one task had the same marked target: the first was skipped,
\* the second was handled as a mutation of the framework
C7_Witness ==
    \E i \in 1..Len(obsLog) :
        /\ obsLog[i].skipped
        /\ NextSameTarget(i) # 0
        /\ ~obsLog[NextSameTarget(i)].skipped

----------------------------------------------------------------------------
(* Callers of the client cache: setToCache, getFromCache and the page      *)
(* reload that empties the memory tier                                     *)

CacheTexts == {sHi, sTabQ, sBlank}
CacheLangs == {DE, FR}
\* the translations stored: "", "Yo", "Ok"
CacheTranslations == {sEmpty, sYo, sOk}

\* setToCache(text, targetLang, translation)
CacheSet(text, targetLang, translation, lsOk) ==
    /\ cacheOps < MaxCacheOps
    /\ cacheOps' = cacheOps + 1
    /\ cache' = setToCache(cache, text, targetLang, translation, lsOk)
    /\ cacheLog' = [op |-> "set", text |-> text, lang |-> targetLang, value |-> translation]
    /\ UNCHANGED <<tbVars, btVars, gtVars, svVars, rlVars, ctxVars>>

\* getFromCache(text, targetLang)
CacheGet(text, targetLang) ==
    /\ cacheOps < MaxCacheOps
    /\ cacheOps' = cacheOps + 1
    /\ cache' = [cache EXCEPT !.mem = getFromCacheMem(cache.mem, cache.ls, text, targetLang)]
    /\ cacheLog' = [op |-> "get", text |-> text, lang |-> targetLang,
                    value |-> getFromCache(cache.mem, cache.ls, text, targetLang)]
    /\ UNCHANGED <<tbVars, btVars, gtVars, svVars, rlVars, ctxVars>>

\* the page is loaded again: MEMORY_CACHE is a new Map, localStorage stays
CacheReload ==
    /\ cacheOps < MaxCacheOps
    /\ cache.mem # EmptyTier
    /\ cacheOps' = cacheOps + 1
    /\ cache' = [cache EXCEPT !.mem = EmptyTier]
    /\ cacheLog' = [NoCacheOp EXCEPT !.op = "reload"]
    /\ UNCHANGED <<tbVars, btVars, gtVars, svVars, rlVars, ctxVars>>

InitCacheSpec ==
    /\ InitCache
    /\ TBAtRest
    /\ BTAtRest
    /\ GTAtRest
    /\ MoreAtRest

NextCache ==
    \/ \E text \in CacheTexts, lang \in CacheLangs, translation \in CacheTranslations,
          lsOk \in BOOLEAN : CacheSet(text, lang, translation, lsOk)
    \/ \E text \in CacheTexts, lang \in CacheLangs : CacheGet(text, lang)
    \/ CacheReload

SpecCache == InitCacheSpec /\ [][NextCache]_vars

SetThenGet ==
    /\ cacheLog.op = "set" /\ cacheLog'.op = "get"
    /\ cacheLog'.text = cacheLog.text /\ cacheLog'.lang = cacheLog.lang
    => cacheLog'.value = cacheLog.value

\* C11: a get that follows a set of the same text and language returns the
\* translation that was stored
C11_SetThenGetRoundTrip == [][SetThenGet]_vars

SetLeavesOthers ==
    cacheLog'.op = "set" /\ cacheOps' # cacheOps =>
        \A text \in CacheTexts, lang \in CacheLangs :
            <<text, lang>> # <<cacheLog'.text, cacheLog'.lang>> =>
                getFromCache(cache'.mem, cache'.ls, text, lang)
                    = getFromCache(cache.mem, cache.ls, text, lang)

\* C12: a set for one (text, language) pair changes the result of get for no
\* other pair
C12_KeysSeparatePairs == [][SetLeavesOthers]_vars

----------------------------------------------------------------------------
(* Server: translateForUser (lib/translation/index.ts), the translation    *)
(* table (lib/translation/utils.ts), the single-text provider adapter      *)
(* (providers/deepl.ts) and the post actions (lib/post-actions.ts)         *)

\* the plain texts a post can hold: "Hi", "Yo", "\n "
SrvContents == {sHi, sYo, sBlank}

\* the users a session can belong to; no session is "none"
SrvUsers == {"none", "ann", "bob"}

\* the author of every post of the model
AuthorOf(id) == "ann"

\* hashContent: the SHA-256 digest, in hex, of the contents of the model
hashContent(text) ==
    CASE text = sHi -> "3639efcd08abb273b1619e82e78c29a7df02c1051b1820e99fc395dcaa3326b8"
      [] text = sYo -> "4eeac15ae345b99db2b063be34cfa006fd7d551f5805a296e5f9fc72ff6efcad"
      [] text = sBlank -> "5d3d321750d18db9f9ca66e7b1ab099da838fb9de1b9d6b44d9ddb44f21cac00"
      [] text = sEmpty -> "e3b0c44298fc1c149afbf4c8996fb92427ae41e4649b934ca495991b7852b855"

\* getCachedTranslationWithHash without the comparison of the hashes
getCachedTranslationWithHash_AnyHash(table, entityType, entityId, fieldName, targetLanguage, sourceHash, dbOk) ==
    LET translation == table[<<entityType, entityId, fieldName, targetLanguage>>]
    IN  IF ~dbOk THEN Null
        ELSE IF translation.present THEN translation.translatedContent
        ELSE Null

\* utils.ts getCachedTranslationWithHash; dbOk: findUnique did not throw
getCachedTranslationWithHash(table, entityType, entityId, fieldName, targetLanguage, sourceHash, dbOk) ==
    LET translation == table[<<entityType, entityId, fieldName, targetLanguage>>]
    IN  IF ~dbOk THEN Null
        ELSE IF translation.present /\ translation.sourceHash = sourceHash
             THEN translation.translatedContent
        ELSE Null

\* providers/deepl.ts translateText: one text through the DeepL HTTP call
deeplTranslateText(text, sourceLang, targetLang, hasKey, po) ==
    LET target == toDeepLLanguage(targetLang, TRUE)
        full == <<Provider(text, target)>>
        translations == IF po = "short" THEN <<>> ELSE full
    IN  IF ~hasKey THEN text
        ELSE IF Trim(text) = <<>> THEN text
        ELSE IF po \in {"httpError", "throw"} THEN text
        ELSE IF Len(translations) > 0 THEN translations[1]
        ELSE text

\* the provider call of deeplTranslateText did not produce a translation
ProviderFailed(hasKey, po) == ~hasKey \/ po \in {"httpError", "throw"}

NoUpsert == [issued |-> FALSE, sourceHash |-> "", translatedContent |-> <<>>]

\* translateForUser up to its first await (lines 37-68)
translateForUser(entityType, entityId, fieldName, content, sourceLanguage, targetLanguage) ==
    LET early == sourceLanguage = targetLanguage \/ ~Truthy(content) \/ Trim(content) = <<>>
    IN  [key |-> <<entityType, entityId, fieldName, targetLanguage>>,
         content |-> content,
         sourceLanguage |-> sourceLanguage,
         pc |-> IF early THEN "done" ELSE "lookup",
         from |-> IF early THEN "content" ELSE "none",
         seen |-> NoRow,
         failed |-> FALSE,
         result |-> IF early THEN content ELSE Null,
         upsert |-> NoUpsert]

\* translateForUser when the lookup has settled (lines 62-72); seen is the row
\* the table held under the key when findUnique ran
AfterLookup(c, seen, cached) ==
    IF Truthy(cached)
    THEN [c EXCEPT !.pc = "done", !.from = "cache", !.seen = seen, !.result = cached]
    ELSE [c EXCEPT !.pc = "provider", !.seen = seen]

\* translateForUser when translateText has settled (lines 75-90)
AfterTranslate(c, translated, failed) ==
    [c EXCEPT !.pc = "done", !.from = "provider", !.failed = failed, !.result = translated,
              !.upsert = [issued |-> TRUE, sourceHash |-> hashContent(c.content),
                          translatedContent |-> translated]]

\* utils.ts setCachedTranslation: the upsert on the unique key
setCachedTranslation(table, key, sourceHash, translatedContent) ==
    [table EXCEPT ![key] = [present |-> TRUE, sourceHash |-> sourceHash,
                            translatedContent |-> translatedContent]]

\* utils.ts deleteCachedTranslations: deleteMany on (entityType, entityId)
deleteCachedTranslations(table, entityType, entityId) ==
    [k \in DOMAIN table |-> IF k[1] = entityType /\ k[2] = entityId THEN NoRow ELSE table[k]]

\* post-actions.ts updatePost: the result and the post table
updatePost(posts, postId, plainText, user) ==
    IF user = "none" THEN [result |-> "Not authenticated", posts |-> posts]
    ELSE IF posts[postId] = Null THEN [result |-> "Post not found", posts |-> posts]
    ELSE IF AuthorOf(postId) # user THEN [result |-> "Not authorized", posts |-> posts]
    ELSE [result |-> "success", posts |-> [posts EXCEPT ![postId] = plainText]]

\* post-actions.ts deletePost: the result, the post table and the translation table
deletePost(posts, table, postId, user) ==
    IF user = "none" THEN [result |-> "Not authenticated", posts |-> posts, table |-> table]
    ELSE IF posts[postId] = Null
         THEN [result |-> "Post not found", posts |-> posts, table |-> table]
    ELSE IF AuthorOf(postId) # user
         THEN [result |-> "Not authorized", posts |-> posts, table |-> table]
    ELSE [result |-> "success", posts |-> [posts EXCEPT ![postId] = Null], table |-> table]

\* everything but the server
notServer == <<cacheVars, tbVars, btVars, gtVars, clVars, rlVars, ctxVars>>

\* the feed renders the post for a reader: translatePostForUser(post, userLanguage)
\* with the post as the page has just read it
SrvTranslatePost(id, userLanguage) ==
    /\ srvEvents < MaxSrvEvents
    /\ dbPost[id] # Null
    /\ srvEvents' = srvEvents + 1
    /\ LET sourceLanguage == EN
       IN  IF sourceLanguage = userLanguage \/ ~Truthy(dbPost[id])
           THEN UNCHANGED userCalls
           ELSE userCalls' = Append(userCalls,
                    translateForUser("Post", id, "plainText", dbPost[id],
                                     sourceLanguage, userLanguage))
    /\ UNCHANGED <<dbPost, dbTranslation, upserts, notServer>>

\* the findUnique of call i settles
SrvLookupDone(i, dbOk) ==
    /\ userCalls[i].pc = "lookup"
    /\ \E c \in {userCalls[i]} :
         \E cached \in {getCachedTranslationWithHash(dbTranslation, c.key[1], c.key[2], c.key[3],
                                                     c.key[4], hashContent(c.content), dbOk)} :
            userCalls' = [userCalls EXCEPT ![i] = AfterLookup(c, dbTranslation[c.key], cached)]
    /\ UNCHANGED <<dbPost, dbTranslation, upserts, srvEvents, notServer>>

\* the translateText of call i settles; the call issues setCachedTranslation
\* without awaiting it and returns
SrvTranslateDone(i, hasKey, po) ==
    /\ userCalls[i].pc = "provider"
    /\ \E c \in {userCalls[i]} :
         \E translated \in {deeplTranslateText(c.content, c.sourceLanguage, c.key[4],
                                               hasKey, po)} :
            /\ userCalls' = [userCalls EXCEPT
                                ![i] = AfterTranslate(c, translated, ProviderFailed(hasKey, po))]
            /\ upserts' = Append(upserts, [key |-> c.key,
                                           sourceHash |-> userCalls'[i].upsert.sourceHash,
                                           translatedContent |-> translated])
    /\ UNCHANGED <<dbPost, dbTranslation, srvEvents, notServer>>

\* the upsert of a setCachedTranslation runs; an error of the database is
\* logged and swallowed
SrvUpsertDone(j, dbOk) ==
    /\ j \in 1..Len(upserts)
    /\ upserts' = RemoveAt(upserts, j)
    /\ dbTranslation' = IF dbOk
                        THEN setCachedTranslation(dbTranslation, upserts[j].key,
                                                  upserts[j].sourceHash,
                                                  upserts[j].translatedContent)
                        ELSE dbTranslation
    /\ UNCHANGED <<dbPost, userCalls, srvEvents, notServer>>

SrvUpdatePost(id, plainText, user) ==
    /\ srvEvents < MaxSrvEvents
    /\ srvEvents' = srvEvents + 1
    /\ \E r \in {updatePost(dbPost, id, plainText, user)} :
         dbPost' = r.posts
    /\ UNCHANGED <<dbTranslation, userCalls, upserts, notServer>>

SrvDeletePost(id, user) ==
    /\ srvEvents < MaxSrvEvents
    /\ srvEvents' = srvEvents + 1
    /\ \E r \in {deletePost(dbPost, dbTranslation, id, user)} :
         /\ dbPost' = r.posts
         /\ dbTranslation' = r.table
    /\ UNCHANGED <<userCalls, upserts, notServer>>

InitServer ==
    /\ InitCache
    /\ TBAtRest
    /\ BTAtRest
    /\ GTAtRest
    /\ MoreAtRest

NextServer ==
    \/ \E id \in PostIds, userLanguage \in {EN, DE} : SrvTranslatePost(id, userLanguage)
    \/ \E i \in 1..Len(userCalls), dbOk \in BOOLEAN : SrvLookupDone(i, dbOk)
    \/ \E i \in 1..Len(userCalls), hasKey \in BOOLEAN, po \in ProviderOutcomes :
          SrvTranslateDone(i, hasKey, po)
    \/ \E j \in 1..Len(upserts), dbOk \in BOOLEAN : SrvUpsertDone(j, dbOk)
    \/ \E id \in PostIds, plainText \in SrvContents, user \in SrvUsers :
          SrvUpdatePost(id, plainText, user)
    \/ \E id \in PostIds, user \in SrvUsers : SrvDeletePost(id, user)

SpecServer == InitServer /\ [][NextServer]_vars

\* the row call c saw under its key carries the hash of the content of c
SawCurrentHash(c) == c.seen.present /\ c.seen.sourceHash = hashContent(c.content)

\* C13: a call of translateForUser returns the cached translation only if the
\* row it read carries the hash of the content it was called with; a call
\* that read no row, or a row with another hash, goes to the provider, returns
\* the provider's text and issues the upsert of that text under the hash of
\* its own content
C13_HitOnlyOnCurrentHash ==
    \A i \in 1..Len(userCalls) :
        LET c == userCalls[i]
        IN  /\ c.from = "cache" =>
                SawCurrentHash(c) /\ c.result = c.seen.translatedContent
            /\ c.pc = "done" /\ c.from # "content" /\ ~SawCurrentHash(c) =>
                /\ c.from = "provider"
                /\ c.upsert.issued
                /\ c.upsert.sourceHash = hashContent(c.content)
                /\ c.upsert.translatedContent = c.result
            /\ \A j \in 1..Len(upserts) :
                upserts[j].sourceHash \in {hashContent(d.content) :
                    d \in {userCalls[k] : k \in {k \in 1..Len(userCalls) :
                                                    userCalls[k].key = upserts[j].key}}}

\* a post was translated and cached, then edited; the next call read the row of
\* the old content, went to the provider, and its upsert has put the hash of
\* the new content on the row
C13_Witness ==
    \E i \in 1..Len(userCalls) :
        /\ userCalls[i].pc = "done" /\ userCalls[i].from = "provider"
        /\ userCalls[i].seen.present
        /\ userCalls[i].seen.sourceHash # hashContent(userCalls[i].content)
        /\ dbPost[userCalls[i].key[2]] = userCalls[i].content
        /\ dbTranslation[userCalls[i].key].sourceHash = hashContent(userCalls[i].content)

\* C14: a call whose provider call failed returns its content and issues no
\* write of the translation table
C14_FailureWritesNothing ==
    \A i \in 1..Len(userCalls) :
        userCalls[i].pc = "done" /\ userCalls[i].failed =>
            /\ userCalls[i].result = userCalls[i].content
            /\ ~userCalls[i].upsert.issued

RowsOf(table, entityType, entityId) ==
    {k \in DOMAIN table : k[1] = entityType /\ k[2] = entityId /\ table[k].present}

\* a step in which deletePost(id) succeeds leaves no row of the post
DeleteLeavesNoRow ==
    \A id \in PostIds :
        dbPost[id] # Null /\ dbPost'[id] = Null => RowsOf(dbTranslation', "Post", id) = {}

\* C15: when deletePost(id) has succeeded, the translation table holds no row
\* of the post
C15_DeletePurgesTranslations == [][DeleteLeavesNoRow]_vars

----------------------------------------------------------------------------
(* The rate limiter of the /api/translate route (app/api/translate/route.ts) *)

RATE_LIMIT == 100
RATE_WINDOW == 60000

\* getRateLimitInfo that counts a rejected request
getRateLimitInfo_CountsRejected(counts, ip, t) ==
    LET record == counts[ip]
    IN  IF ~record.present \/ t > record.resetTime
        THEN [allowed |-> TRUE, remaining |-> RATE_LIMIT - 1,
              counts |-> [counts EXCEPT ![ip] = [present |-> TRUE, count |-> 1,
                                                 resetTime |-> t + RATE_WINDOW]]]
        ELSE IF record.count >= RATE_LIMIT
             THEN [allowed |-> FALSE, remaining |-> 0,
                   counts |-> [counts EXCEPT ![ip].resetTime = t + RATE_WINDOW]]
        ELSE [allowed |-> TRUE, remaining |-> RATE_LIMIT - (record.count + 1),
              counts |-> [counts EXCEPT ![ip].count = record.count + 1]]

\* getRateLimitInfo with the test of the limit off by one
getRateLimitInfo_OffByOne(counts, ip, t) ==
    LET record == counts[ip]
    IN  IF ~record.present \/ t > record.resetTime
        THEN [allowed |-> TRUE, remaining |-> RATE_LIMIT - 1,
              counts |-> [counts EXCEPT ![ip] = [present |-> TRUE, count |-> 1,
                                                 resetTime |-> t + RATE_WINDOW]]]
        ELSE IF record.count > RATE_LIMIT
             THEN [allowed |-> FALSE, remaining |-> 0, counts |-> counts]
        ELSE [allowed |-> TRUE, remaining |-> RATE_LIMIT - (record.count + 1),
              counts |-> [counts EXCEPT ![ip].count = record.count + 1]]

\* getRateLimitInfo(ip) at Date.clock() = t: the answer and the new requestCounts
getRateLimitInfo(counts, ip, t) ==
    LET record == counts[ip]
    IN  IF ~record.present \/ t > record.resetTime
        THEN [allowed |-> TRUE, remaining |-> RATE_LIMIT - 1,
              counts |-> [counts EXCEPT ![ip] = [present |-> TRUE, count |-> 1,
                                                 resetTime |-> t + RATE_WINDOW]]]
        ELSE IF record.count >= RATE_LIMIT
             THEN [allowed |-> FALSE, remaining |-> 0, counts |-> counts]
        ELSE [allowed |-> TRUE, remaining |-> RATE_LIMIT - (record.count + 1),
              counts |-> [counts EXCEPT ![ip].count = record.count + 1]]

\* the client IP POST reads off the headers (lines 62-64); a header that is
\* not sent reads null, here "", which || passes over like the empty string
ClientIp(forwardedFor, realIp) ==
    IF forwardedFor # "" THEN forwardedFor
    ELSE IF realIp # "" THEN realIp
    ELSE "unknown"

\* the header pairs (x-forwarded-for, x-real-ip) of the requests of the model
RequestHeaders == {<<"10.0.0.1", "">>, <<"", "10.0.0.1">>, <<"", "">>}

\* the window of requests of a client: it opens with the client's first
\* request, or with its first request later than RATE_WINDOW ms after the
\* window before was opened, and counts the requests made in it
WindowAfter(w, t) ==
    IF w.asked = 0 \/ t > w.opened + RATE_WINDOW
    THEN [opened |-> t, asked |-> 1]
    ELSE [w EXCEPT !.asked = w.asked + 1]

notRate == <<cacheVars, tbVars, btVars, gtVars, clVars, svVars, ctxVars>>

\* POST /api/translate with a body of one text (or none) for German
RatePOST(headers, texts) ==
    /\ \E ip \in {ClientIp(headers[1], headers[2])} :
         \E rateLimit \in {getRateLimitInfo(requestCounts, ip, clock)} :
            /\ rlRequests[ip] < (IF ip = "unknown" THEN MaxOtherRequests ELSE MaxRequests)
            /\ rlRequests' = [rlRequests EXCEPT ![ip] = rlRequests[ip] + 1]
            /\ requestCounts' = rateLimit.counts
            /\ rlWindow' = [rlWindow EXCEPT ![ip] = WindowAfter(rlWindow[ip], clock)]
            /\ rlLog' = [ip |-> ip,
                         status |-> RoutePOST(texts, DE, Null, rateLimit.allowed,
                                              TRUE, "ok").status,
                         retryAfter |-> IF rateLimit.allowed THEN "" ELSE "60",
                         remaining |-> rateLimit.remaining]
    /\ UNCHANGED <<clock, notRate>>

\* half a window of time passes
RateTick ==
    /\ clock < MaxTicks * (RATE_WINDOW \div 2)
    /\ clock' = clock + RATE_WINDOW \div 2
    /\ UNCHANGED <<requestCounts, rlWindow, rlLog, rlRequests, notRate>>

InitRate ==
    /\ InitCache
    /\ TBAtRest
    /\ BTAtRest
    /\ GTAtRest
    /\ MoreAtRest

NextRate ==
    \/ \E headers \in RequestHeaders, texts \in {<<sHi>>, <<>>} : RatePOST(headers, texts)
    \/ RateTick

SpecRate == InitRate /\ [][NextRate]_vars

\* C16: of the requests of one client IP in one window the first RATE_LIMIT
\* pass the limiter, every later one is answered 429 with Retry-After, and
\* the count kept for an IP never exceeds RATE_LIMIT
C16_HundredPerWindow ==
    /\ \A ip \in ClientIps : requestCounts[ip].count <= RATE_LIMIT
    /\ rlLog # NoRequest =>
         /\ rlWindow[rlLog.ip].asked <= RATE_LIMIT =>
                rlLog.status # 429 /\ rlLog.retryAfter = ""
         /\ rlWindow[rlLog.ip].asked > RATE_LIMIT =>
                rlLog.status = 429 /\ rlLog.retryAfter = "60"

\* the 101st request of a client in a window that has lasted a while is
\* turned away, after the other client has been served
C16_Witness ==
    /\ rlLog.status = 429
    /\ rlLog.ip = "10.0.0.1"
    /\ rlWindow["10.0.0.1"].asked = RATE_LIMIT + 1
    /\ clock > rlWindow["10.0.0.1"].opened
    /\ rlWindow["unknown"].asked > 0

\* a request of client ip is answered in this step
RequestOf(ip) == rlRequests'[ip] = rlRequests[ip] + 1

\* a request that comes after the expiry time of the window of its client
\* passes and opens a new window with count 1
ExpiredWindowRestarts ==
    \A ip \in ClientIps :
        RequestOf(ip) /\ requestCounts[ip].present /\ clock > requestCounts[ip].resetTime =>
            /\ rlLog'.status # 429
            /\ requestCounts'[ip] = [present |-> TRUE, count |-> 1,
                                     resetTime |-> clock + RATE_WINDOW]

\* a request that is turned away leaves every record as it was
RejectedLeavesRecord ==
    \A ip \in ClientIps :
        RequestOf(ip) /\ rlLog'.status = 429 => requestCounts' = requestCounts

\* no record changes but by a request: there is no timer that resets a window
NoBackgroundReset ==
    (\A ip \in ClientIps : rlRequests'[ip] = rlRequests[ip]) => requestCounts' = requestCounts

\* C32: the window of a client is reset by the client's first request after
\* the expiry time, which passes and restarts the window with count 1, also
\* after rejections in the expired window; a rejected request changes
\* neither the count nor the expiry time
C32_LazyWindowReset ==
    [][ExpiredWindowRestarts /\ RejectedLeavesRecord /\ NoBackgroundReset]_vars

\* a client that was turned away at its 101st request asks again after the
\* window has expired and is served, first of a new window
C32_Witness ==
    /\ rlRequests["10.0.0.1"] = RATE_LIMIT + 2
    /\ rlLog.ip = "10.0.0.1" /\ rlLog.status = 200
    /\ rlLog.remaining = RATE_LIMIT - 1
    /\ requestCounts["10.0.0.1"].count = 1
    /\ requestCounts["10.0.0.1"].resetTime = clock + RATE_WINDOW
    /\ rlWindow["10.0.0.1"] = [opened |-> clock, asked |-> 1]

----------------------------------------------------------------------------
(* triggerRetranslation (TranslationContext.tsx lines 139-141) and the     *)
(* render of the GlobalTranslator it causes                                *)

\* the effects React runs when only translationVersion changed: no callback
\* of the component changes identity, so of the three effects only the
\* language effect (lines 510-559) has a changed dependency; it has no cleanup
VersionCommit(W, lang) == Deliver(LanguageEffect(W, lang, lang), lang)

GTTriggerRetranslation ==
    /\ translationVersion < MaxVersion
    /\ translationVersion' = translationVersion + 1
    /\ GTSet(VersionCommit([EventState EXCEPT !.rescanOwed = currentLanguage # EN],
                           currentLanguage))
    /\ UNCHANGED <<pathname, currentLanguage, src, events, lastSwitch, tbVars, btVars, moreVars>>

NextRescan ==
    \/ NextGT
    \/ GTTriggerRetranslation

SpecRescan == InitGT /\ [][NextRescan]_vars

\* a step of triggerRetranslation increments the version and keeps the language
TriggerBumpsVersion ==
    rescanOwed' /\ currentLanguage' = currentLanguage
    /\ translationVersion' # translationVersion
    => translationVersion' = translationVersion + 1

\* C19: triggerRetranslation in a language other than English increments the
\* version, keeps the language, and a full scan of the document follows: the
\* translator does not come to rest, with no timer pending and no call in
\* flight, while the scan is still owed
C19_TriggerForcesRescan ==
    /\ [][TriggerBumpsVersion]_vars
    /\ [](currentLanguage # EN /\ Quiescent => ~rescanOwed)

\* a run of the language effect with the language it ran with before: the
\* version changed and the language did not
RerunLeavesPage ==
    translationVersion' = translationVersion + 1 /\ currentLanguage' = currentLanguage
        => /\ dom' = dom
           /\ translatedNodes' = translatedNodes
           /\ pendingTargets' = pendingTargets
           /\ timers' = timers

\* C23: when the language effect runs again with the language unchanged (a
\* change of the version alone), nothing is reverted or reset and no scan is
\* run or scheduled: the page, the record of translated nodes, the queue of
\* pending targets and the timers are as they were
C23_RerunIsNoOp == [][RerunLeavesPage]_vars

\* the framework sets the text of the k-th text node it rendered into e, the
\* node is in the page, the new text is the original stored for it and the
\* cache holds a translation of that original into the current language
FrameworkRestoresOriginal(e, k) ==
    /\ src[e].present /\ src'[e].present
    /\ k <= Len(src'[e].texts)
    /\ src'[e].texts[k] # src[e].texts[k]
    /\ Truthy(getOriginalText(dom, src[e].ids[k]))
    /\ src'[e].texts[k] = getOriginalText(dom, src[e].ids[k])
    /\ Truthy(getFromCache(cache.mem, cache.ls, src'[e].texts[k], currentLanguage))

ReappliedFromCache ==
    \A e \in ElemSet : \A k \in 1..Len(src[e].texts) :
        FrameworkRestoresOriginal(e, k) =>
            /\ nodeText(dom', src[e].ids[k])
                   = getFromCache(cache.mem, cache.ls, src'[e].texts[k], currentLanguage)
            /\ MapGet(translatedNodes', src[e].ids[k]) = currentLanguage
            /\ \E i \in 1..Len(obsLog') : /\ obsLog'[i].target = src[e].ids[k]
                                          /\ obsLog'[i].self
                                          /\ obsLog'[i].marked
                                          /\ obsLog'[i].skipped
            /\ pendingTargets' = pendingTargets
            /\ timers' = timers

\* C24: when the framework sets a text node to the original stored for it and
\* the cache holds a translation of that original into the current language,
\* the translator writes the cached translation into the node in the same
\* task, the write is marked and skipped by the observer, the node is on
\* record as translated into the current language, and no target is queued
C24_RestoredOriginalIsRetranslated == [][ReappliedFromCache]_vars

\* the framework set the second text of the paragraph to "Hi", the original
\* stored on the paragraph, and the node shows the German of "Hi" again
C24_Witness ==
    /\ currentLanguage = DE
    /\ src[eP].texts[2] = sHi
    /\ dom[eP].origText = sHi
    /\ dom[eP].kids[2].id = src[eP].ids[2]
    /\ dom[eP].kids[2].text = Provider(sHi, DE)
    /\ \E i \in 1..Len(obsLog) : obsLog[i].target = src[eP].ids[2] /\ obsLog[i].reapplied

\* C25: the originalText of a queued attribute target is the live value of the
\* attribute only while the element carries no data-original-title; once the
\* marker is there, the original of every target of that attribute is the
\* marker's value, not the value the attribute shows
C25_AttributeOriginalKeepsMarker ==
    \A t \in TargetsAtWork :
        t.type = "attribute" /\ dom[t.node].origTitle # Null
            => t.originalText = dom[t.node].origTitle

\* a marker that is set keeps its value; it goes only when the language
\* becomes the default and the page is reverted
MarkerKept ==
    \A e \in ElemSet :
        /\ dom[e].origText # Null /\ dom'[e].origText # dom[e].origText
               => dom'[e].origText = Null /\ currentLanguage # EN /\ currentLanguage' = EN
        /\ dom[e].origTitle # Null /\ dom'[e].origTitle # dom[e].origTitle
               => dom'[e].origTitle = Null /\ currentLanguage # EN /\ currentLanguage' = EN

\* in a task in which neither the language nor the framework's rendering
\* changes, an element whose text or title the translator changed carries
\* the marker of what it changed
MarkerWithWrite ==
    currentLanguage' = currentLanguage /\ src' = src =>
        \A e \in ElemSet :
            /\ dom'[e].kids # dom[e].kids => dom'[e].origText # Null
            /\ dom'[e].title # dom[e].title => dom'[e].origTitle # Null

\* C26: data-original-text and data-original-title are written once: no
\* later apply changes the value of a marker that is set, the marker goes
\* only with the revert to the default language, and whenever an apply has
\* overwritten a text or a title the element carries the marker
C26_MarkersFirstWriteOnly == [][MarkerKept /\ MarkerWithWrite]_vars

\* after German and then French were applied, the option and the title show
\* the French of the German and still carry the originals "Hi" and "Ok"
C26_Witness ==
    /\ currentLanguage = FR
    /\ dom[eOpt].origText = sHi
    /\ dom[eOpt].kids[1].text = Provider(Provider(sHi, DE), FR)
    /\ dom[eBtn].origTitle = sOk
    /\ dom[eBtn].title = Provider(Provider(sOk, DE), FR)

\* an apply ends in this step
ApplyEnds == inflight # NoApply /\ inflight' # inflight

BusyClearedAtEnd == ApplyEnds /\ inflight' = NoApply => ~isTranslating'

\* C27: isTranslating is true exactly while an apply awaits its translations:
\* it is set when the apply starts, it is cleared when the apply ends,
\* whether the call of the endpoint succeeded or failed, and it is false
\* whenever no apply is in progress
C27_BusyWhileApplying ==
    /\ [](isTranslating <=> inflight # NoApply)
    /\ [][BusyClearedAtEnd]_vars

\* the call of the first scan in German failed: nothing was translated, no
\* apply is in progress and the flag is down
C27_Witness ==
    /\ currentLanguage = DE /\ lastSwitch = EN
    /\ events = 2 /\ src = InitSrc
    /\ inflight = NoApply /\ pendingTargets = <<>>
    /\ \A e \in ElemSet : ~dom[e].translated
    /\ cache.mem = EmptyTier
    /\ \A i \in 1..Len(timers) : timers[i].kind # "process"
    /\ ~isTranslating

\* the call of the apply in progress fails in this step
ApplyFails ==
    /\ inflight # NoApply
    /\ events' = events + 1
    /\ currentLanguage' = currentLanguage
    /\ src' = src

\* the failed apply gives way: the processing flag and the busy flag are down,
\* and what was queued meanwhile has its processing timer
FailureReleases ==
    ApplyFails =>
        /\ inflight' = NoApply
        /\ ~isTranslating'
        /\ pendingTargets' # <<>> =>
               \E i \in 1..Len(timers') : timers'[i].kind = "process" /\ timers'[i].tracked

\* the observer is connected: what the framework inserts into the page is
\* reported to handleMutations in the same task
InsertObserved ==
    src'[eUser].present /\ ~src[eUser].present =>
        /\ obsLog' # <<>>
        /\ obsLog'[1].type = "childList" /\ obsLog'[1].target = Body /\ ~obsLog'[1].self

\* C28: a failed call of an apply is caught: the apply ends, the processing
\* flag is released, targets queued during the call get their timer, and
\* the observer goes on reporting mutations, so that later targets are
\* processed by a later apply
C28_FailureDoesNotStop == [][FailureReleases /\ InsertObserved]_vars

\* one call in German failed (the second event after the switch), and all is
\* done: later applies translated the page and fetched what was still missing
C28_Witness ==
    /\ currentLanguage = DE /\ lastSwitch = EN
    /\ events = 2 /\ src = InitSrc
    /\ Quiescent /\ pendingTargets = <<>>
    /\ dom[eOpt].kids[1].text = Provider(sHi, DE)
    /\ dom[eBtn].title = Provider(sOk, DE)
    /\ getFromCache(cache.mem, cache.ls, Provider(sOk, DE), DE) # Null

\* the routes of the model
Paths == {"/", "/posts"}

\* the effects React runs when only pathname changed: the cleanup of the route
\* effect (line 570) clears its timer and the effect sets a new one (line 564)
RouteCommit_NoCleanup(W, lang) ==
    SetTimer(W, "route", 100, lang)

RouteCommit(W, lang) ==
    LET Kept(t) == t.kind # "route"
    IN  SetTimer([W EXCEPT !.timers = SelectSeq(@, Kept)], "route", 100, lang)

\* the user navigates to path within the persistent layout
GTNavigate(path) ==
    /\ events < MaxEvents
    /\ path # pathname
    /\ events' = events + 1
    /\ pathname' = path
    /\ GTSet(RouteCommit(EventState, currentLanguage))
    /\ UNCHANGED <<currentLanguage, src, lastSwitch, translationVersion, tbVars, btVars,
                   moreVars>>

NextRoute ==
    \/ NextGT
    \/ \E path \in Paths : GTNavigate(path)

SpecRoute == InitGT /\ [][NextRoute]_vars

RouteTimers(ts) == {i \in 1..Len(ts) : ts[i].kind = "route"}

\* at most one timer of the route effect is pending, and it is the one of
\* the last render: a newer route or language replaced every earlier one
OneRouteTimer ==
    /\ Cardinality(RouteTimers(timers)) <= 1
    /\ \A i \in RouteTimers(timers) : timers[i].lang = currentLanguage

\* a change of route sets the timer of 100 ms
NavigateArms ==
    pathname' # pathname =>
        \E i \in RouteTimers(timers') : timers'[i].due = 100

\* the timer of the route effect fires: a full scan in a language other than
\* the default, nothing in the default language
RouteTimerFires ==
    Cardinality(RouteTimers(timers')) < Cardinality(RouteTimers(timers)) =>
        IF currentLanguage # EN
        THEN scannedLang' = currentLanguage
        ELSE /\ dom' = dom
             /\ pendingTargets' = pendingTargets
             /\ inflight' = inflight
             /\ scannedLang' = scannedLang
             /\ \A i \in 1..Len(timers') : timers'[i].kind # "process"
                    \/ \E j \in 1..Len(timers) : timers[j] = timers'[i]

\* C29: a change of route sets a timer of 100 ms that a newer route or
\* language replaces; when it fires in a language other than the default the
\* full document is scanned, and in the default language nothing is scanned
C29_RouteChangeRescans ==
    /\ []OneRouteTimer
    /\ [][NavigateArms /\ RouteTimerFires]_vars

\* German is shown, the user went to /posts and the timer of that route ran
\* its scan
C29_Witness ==
    /\ currentLanguage = DE
    /\ pathname = "/posts"
    /\ events = 2
    /\ RouteTimers(timers) = {}
    /\ scannedLang = DE

\* A page of a list: the paragraph holds n text nodes, each with a text of its
\* own ("Iaa", "Iab", ...); nothing else is rendered
ItemText(i) == <<73, 97 + (i \div 26), 97 + (i % 26)>>

\* the lengths of the lists of the model
LongPageSizes == {MAX_BATCH_SIZE, MAX_BATCH_SIZE + 1}

LongSrc(n) ==
    [e \in ElemSet |->
        IF e = eP
        THEN [present |-> TRUE, texts |-> [i \in 1..n |-> ItemText(i)],
              ids |-> [i \in 1..n |-> 100 + i], title |-> Null]
        ELSE [present |-> FALSE, texts |-> <<>>, ids |-> <<>>, title |-> Null]]

LongDom(n) ==
    [e \in ElemSet |->
        [present |-> e = eP,
         kids |-> IF e = eP THEN [i \in 1..n |-> [id |-> 100 + i, text |-> ItemText(i)]]
                  ELSE <<>>,
         title |-> Null, origText |-> Null, origTitle |-> Null, translated |-> FALSE]]

\* GlobalTranslator mounted in the default language on a page of a list
InitLongPage ==
    /\ InitCache
    /\ TBAtRest
    /\ BTAtRest
    /\ MoreAtRest
    /\ currentLanguage = EN
    /\ \E n \in LongPageSizes : dom = LongDom(n) /\ src = LongSrc(n)
    /\ pendingOurMutations = {}
    /\ translatedNodes = [n \in {} |-> Null]
    /\ pendingTargets = <<>>
    /\ inflight = NoApply
    /\ timers = <<[kind |-> "route", due |-> 100, lang |-> EN, tracked |-> FALSE]>>
    /\ nextId = 200
    /\ events = 0
    /\ obsLog = <<>>
    /\ lastSwitch = EN
    /\ translationVersion = 0
    /\ rescanOwed = FALSE
    /\ scannedLang = Null
    /\ repeatScan = FALSE
    /\ isTranslating = FALSE
    /\ pathname = "/"

NextLongPage ==
    \/ \E lang \in {EN, DE, FR} : GTSetLanguage(lang)
    \/ GTTimePasses
    \/ \E i \in 1..Len(timers) : GTTimer(i)
    \/ \E net \in GTNet : GTApplyDone(net)

SpecLongPage == InitLongPage /\ [][NextLongPage]_vars

\* C31: a call of the translate endpoint made for the translator carries at
\* most MAX_BATCH_SIZE texts, however many texts a scan found
C31_AtMostFiftyTextsPerCall ==
    inflight # NoApply => Len(inflight.toTranslate) <= MAX_BATCH_SIZE

\* The translator mounted on a page the server sent with a language other
\* than the default: the language effect asks for an animation frame (line
\* 533), the route effect sets its timer (line 564); in the frame the page is
\* scanned and the follow-up scan is set for 200 ms later (lines 534-538)
FreshState ==
    [dom |-> InitDom, pendingOurMutations |-> {},
     translatedNodes |-> [n \in {} |-> Null], pendingTargets |-> <<>>,
     inflight |-> NoApply, timers |-> <<>>, nextId |-> 14,
     cache |-> [mem |-> EmptyTier, ls |-> EmptyTier],
     records |-> <<>>, log |-> <<>>, rescanOwed |-> FALSE,
     scannedLang |-> Null, repeatScan |-> FALSE, isTranslating |-> FALSE]

FirstFrame(lang) ==
    SetTimer(scanFullPage(SetTimer(FreshState, "route", 100, lang), lang), "scan", 200, lang)

\* the languages a page is mounted with
MountLangs == {DE, FR}

InitMount ==
    /\ TBAtRest
    /\ BTAtRest
    /\ MoreAtRest
    /\ src = InitSrc
    /\ events = 0
    /\ translationVersion = 0
    /\ pathname = "/"
    /\ \E lang \in MountLangs : \E W \in {FirstFrame(lang)} :
          /\ currentLanguage = lang
          /\ lastSwitch = lang
          /\ dom = W.dom
          /\ pendingOurMutations = W.pendingOurMutations
          /\ translatedNodes = W.translatedNodes
          /\ pendingTargets = W.pendingTargets
          /\ inflight = W.inflight
          /\ timers = W.timers
          /\ nextId = W.nextId
          /\ cache = W.cache
          /\ obsLog = W.log
          /\ rescanOwed = W.rescanOwed
          /\ scannedLang = W.scannedLang
          /\ repeatScan = W.repeatScan
          /\ isTranslating = W.isTranslating

\* the user switches to the default language on that page; the framework
\* renders nothing new
NextMount ==
    \/ GTSetLanguage(EN)
    \/ GTTimePasses
    \/ \E i \in 1..Len(timers) : GTTimer(i)
    \/ \E net \in GTNet : GTApplyDone(net)

SpecMount == InitMount /\ [][NextMount]_vars

\* the timer that is due now and fires next, 0 if none is due
DueTimer == IF \E i \in 1..Len(timers) : CanFire(timers, i)
            THEN CHOOSE i \in 1..Len(timers) : CanFire(timers, i) ELSE 0

\* the step in which the timer that is due runs its callback
TimerStep ==
    /\ DueTimer # 0
    /\ events' = events
    /\ timers' # timers
    /\ ~(inflight # NoApply /\ inflight' = NoApply)

\* a scan a timer of another language runs while the default language is
\* shown finds nothing to do
StaleScanDoesNothing ==
    TimerStep /\ currentLanguage = EN /\ timers[DueTimer].kind = "scan"
        => /\ pendingTargets' = pendingTargets
           /\ timers' = RemoveAt(timers, DueTimer)

\* a step in the default language writes no translation and sets no marker
NoWriteInDefault ==
    currentLanguage = EN /\ currentLanguage' = EN =>
        \A e \in ElemSet :
            /\ dom[e].origText = Null => dom'[e].origText = Null
            /\ dom[e].origTitle = Null => dom'[e].origTitle = Null
            /\ dom'[e].title # dom[e].title => ~IsTranslated(dom'[e].title)
            /\ \A k \in 1..Len(dom'[e].kids) :
                   IsTranslated(dom'[e].kids[k].text) =>
                       /\ k <= Len(dom[e].kids)
                       /\ dom[e].kids[k].text = dom'[e].kids[k].text

\* C33: a full scan that a timer set under another language runs after the
\* switch to the default language queues nothing, and while the default
\* language is shown no translation is written and no marker is set
C33_StaleScanTranslatesNothing == [][StaleScanDoesNothing /\ NoWriteInDefault]_vars

\* timer i of ts runs processPendingTargets of a render of another language
\* than the one shown
StaleProcessTimer(ts, i) == ts[i].kind = "process" /\ ts[i].lang # currentLanguage'

\* an apply ends with targets queued meanwhile: the processing it schedules
\* is that of the language shown
RescheduledInCurrentLanguage ==
    inflight # NoApply /\ inflight' = NoApply /\ pendingTargets' # <<>> =>
        \A i \in 1..Len(timers') :
            StaleProcessTimer(timers', i) =>
                \E j \in 1..Len(timers) :
                    /\ StaleProcessTimer(timers, j)
                    /\ timers[j].lang = timers'[i].lang
                    /\ timers[j].due = timers'[i].due

\* C34: targets queued while an apply was in progress are processed in the
\* language shown when they are processed: the processing scheduled at the
\* end of the apply is not that of the language of the apply
C34_QueuedTargetsUseCurrentLanguage == [][RescheduledInCurrentLanguage]_vars

\* the call an apply awaits is replaced by nothing but its own end: no apply
\* starts while one is in progress
NoSecondApply ==
    inflight # NoApply /\ inflight' # inflight => inflight' = NoApply

\* processPendingTargets that runs while an apply is in progress takes
\* nothing off the queue
BusyLeavesQueue ==
    TimerStep /\ inflight # NoApply /\ timers[DueTimer].kind = "process" =>
        pendingTargets' = pendingTargets

\* C35: at most one apply is in progress at any time: whichever render's
\* processPendingTargets runs, on a timer or after a language change, it
\* starts no apply and takes no target while isProcessingRef is set, and
\* the ref is set from the start of an apply to its end
C35_OneApplyAtATime == [][NoSecondApply /\ BusyLeavesQueue]_vars

\* German was switched on and nothing else happened; while the apply awaits
\* its call the scan of the route timer queued targets, and the processing it
\* asked for has run without taking them
C35_Witness ==
    /\ events = 1 /\ currentLanguage = DE
    /\ inflight # NoApply /\ inflight.lang = DE
    /\ pendingTargets # <<>>
    /\ \A i \in 1..Len(timers) : timers[i].kind # "process"

\* targets wait in the queue of a page shown in another language than the default
TargetsWaiting == currentLanguage # EN /\ pendingTargets # <<>>

\* processPendingTargets is set to run: on a timer, or at the end of the apply
\* in progress
ProcessingSet(ts, call) ==
    call # NoApply \/ \E i \in 1..Len(ts) : ts[i].kind = "process"

\* something is set to take the queue: the processing, or a scan that will
\* ask for it
QueueWatched ==
    \/ ProcessingSet(timers, inflight)
    \/ \E i \in 1..Len(timers) : timers[i].kind = "scan" /\ timers[i].lang # EN

\* after a scan or a processing of a render in another language than the
\* default, and after the end of an apply, targets left in the queue have
\* their processing set
QueueKeptMoving ==
    /\ TimerStep /\ timers[DueTimer].kind \in {"scan", "process"} /\ timers[DueTimer].lang # EN
            /\ TargetsWaiting' => ProcessingSet(timers', inflight')
    /\ inflight # NoApply /\ inflight' = NoApply /\ TargetsWaiting'
            => ProcessingSet(timers', inflight')

\* C36: while a language other than the default is shown, the queue is never
\* left with targets and nothing set to take them, also when targets come
\* during an apply and when the cleanup of the observer effect cleared the
\* processing timer at a change of language
C36_QueuedTargetsAreProcessed ==
    /\ [](TargetsWaiting => QueueWatched)
    /\ [][QueueKeptMoving]_vars

\* German was switched on; targets came during the apply, their timer ran
\* while it was in progress, and at its end the processing was set again
C36_Witness ==
    /\ events = 1 /\ currentLanguage = DE
    /\ inflight = NoApply
    /\ pendingTargets # <<>>
    /\ dom[eOpt].kids[1].text = Provider(sHi, DE)
    /\ \E i \in 1..Len(timers) :
          timers[i].kind = "process" /\ timers[i].tracked /\ timers[i].due = 10

\* The page with an <option> whose text the framework updates from "Hi" to
\* "Yo" (a re-render with new data), besides the changes of language
NextEdit ==
    \/ \E lang \in {EN, DE, FR} : GTSetLanguage(lang)
    \/ GTTimePasses
    \/ \E i \in 1..Len(timers) : GTTimer(i)
    \/ \E net \in GTNet : GTApplyDone(net)
    \/ GTFrameworkSetText(eOpt, 1, sYo)

SpecEdit == InitGT /\ [][NextEdit]_vars

\* element e holds one text node, and that node shows the translation of
\* what the framework last rendered into it
ShowsTranslatedSource(e) ==
    /\ currentLanguage # EN
    /\ src[e].present /\ Len(src[e].texts) = 1
    /\ dom[e].present /\ Len(dom[e].kids) = 1
    /\ dom[e].kids[1].text = <<MarkOf(currentLanguage)>> \o src[e].texts[1]

\* element e was translated, and then the framework gave its text node a new
\* source text, which the node shows
SourceChangedSince(e) ==
    /\ src[e].present /\ Len(src[e].texts) = 1
    /\ dom[e].present /\ Len(dom[e].kids) = 1
    /\ dom[e].translated /\ dom[e].origText # Null
    /\ dom[e].kids[1].text = src[e].texts[1]
    /\ dom[e].origText # src[e].texts[1]

\* once the translator has translated the new source text, the stored
\* original is the new source text
OriginalFollowsSource ==
    \A e \in ElemSet :
        SourceChangedSince(e) /\ ShowsTranslatedSource(e)' =>
            dom'[e].origText = src'[e].texts[1]

\* C37: when the framework has changed the source text of a text node that
\* was translated and the translator translates the new text, the stored
\* original of the element is the new source text, which a later revert or
\* reset restores
C37_StoredOriginalFollowsSource == [][OriginalFollowsSource]_vars

\* the targets a step adds to the queue
NewTargets ==
    {pendingTargets'[i] : i \in 1..Len(pendingTargets')}
    \ {pendingTargets[i] : i \in 1..Len(pendingTargets)}

\* the text the framework rendered into text node n of element e, Null if n
\* is not a node the framework rendered into e
SourceOf(s, e, n) ==
    IF \E k \in 1..Len(s[e].ids) : s[e].ids[k] = n
    THEN s[e].texts[CHOOSE k \in 1..Len(s[e].ids) : s[e].ids[k] = n]
    ELSE Null

\* a target made of a text node that has a sibling text node carries the
\* source text of its own node
SiblingsKeepOwnSource ==
    \A t \in NewTargets : \A e \in ElemSet :
        /\ t.type = "text"
        /\ src'[e].present /\ Len(src'[e].texts) > 1
        /\ SourceOf(src', e, t.node) # Null
        => t.originalText = SourceOf(src', e, t.node)

\* C38: the originalText of a target made of a text node whose parent has
\* several text nodes is the source text of that node, on the first scan and
\* on every later one, never the stored original of a sibling
C38_TextTargetsOwnSource == [][SiblingsKeepOwnSource]_vars

\* C20: a full scan that repeats a full scan in the same language, after the
\* translations of that scan were applied and with no change of the page by
\* the framework in between, starts no call of the endpoint: everything it
\* finds is served from the cache
C20_RepeatedScanNoRequest == repeatScan => inflight = NoApply

\* the scan of the route effect has repeated the scan of the switch to German
\* and what it found (the option and the title) was applied from the cache
C20_Witness ==
    /\ repeatScan
    /\ currentLanguage = DE
    /\ Quiescent
    /\ pendingTargets = <<>>
    /\ dom[eOpt].kids[1].text = Provider(sHi, DE)
    /\ dom[eBtn].title = Provider(sOk, DE)

----------------------------------------------------------------------------
(* The TranslationProvider (components/translation/TranslationContext.tsx): *)
(* the initial language, setLanguage and triggerRetranslation               *)

\* "xx", "DE-at", "de-DE", "en-US", "FR"
sXx == <<120, 120>>
sDEat == <<68, 69, 45, 97, 116>>
sDeDE == <<100, 101, 45, 68, 69>>
sEnUS == <<101, 110, 45, 85, 83>>
sFRup == <<70, 82>>

\* getInitialLanguage(serverLanguage) where in.stored is what localStorage
\* holds under STORAGE_KEY, in.lsThrows whether getItem throws, in.language and
\* in.userLanguage what navigator reports
getInitialLanguage(in) ==
    LET browserLang == OrElse(in.language, in.userLanguage)
    IN  IF Truthy(in.serverLanguage) /\ isLanguageSupported(in.serverLanguage)
        THEN getBaseLanguage(in.serverLanguage)
        ELSE IF ~in.hasWindow THEN EN
        ELSE IF ~in.lsThrows /\ Truthy(in.stored) /\ isLanguageSupported(in.stored)
        THEN getBaseLanguage(in.stored)
        ELSE IF Truthy(browserLang) /\ isLanguageSupported(browserLang)
        THEN getBaseLanguage(browserLang)
        ELSE EN

\* the effect that persists currentLanguage (lines 93-101)
Persist(in, store, lang) == IF in.hasWindow /\ ~in.lsThrows THEN lang ELSE store

\* what a provider can find when it mounts: on the server there is no window,
\* hence neither localStorage nor navigator
MountInputs ==
    {[serverLanguage |-> sv, hasWindow |-> FALSE, lsThrows |-> FALSE, stored |-> Null,
      language |-> <<>>, userLanguage |-> Null] : sv \in {Null, sEmpty, DE, sDEat, sXx}}
    \cup
    [serverLanguage : {Null, sEmpty, DE, sDEat, sXx}, hasWindow : {TRUE},
     lsThrows : BOOLEAN, stored : {Null, FR, sXx, sConstructor},
     language : {sEmpty, sEnUS, sDeDE, sXx}, userLanguage : {Null, FR}]

\* the arguments of setLanguage: "de", "FR", "en-US", "xx", "constructor"
CtxLangs == {DE, sFRup, sEnUS, sXx, sConstructor}

notCtx == <<cacheVars, tbVars, btVars, gtVars, clVars, svVars, rlVars>>

\* the provider mounts: useState(() => getInitialLanguage(initialLanguage)),
\* then the effect that persists the language
CtxMount ==
    /\ provider = NotMounted
    /\ \E lang \in {getInitialLanguage(mountIn)} :
         /\ provider' = [currentLanguage |-> lang, translationVersion |-> 0]
         /\ localStore' = Persist(mountIn, localStore, lang)
    /\ UNCHANGED <<mountIn, ctxLog, ctxCalls, notCtx>>

\* setLanguage(lang) in the browser and the render that follows it
CtxSetLanguage(lang) ==
    /\ provider # NotMounted
    /\ mountIn.hasWindow
    /\ ctxCalls < MaxCtxCalls
    /\ ctxCalls' = ctxCalls + 1
    /\ \E r \in {setLanguage(provider.currentLanguage, provider.translationVersion, lang)} :
         /\ provider' = [currentLanguage |-> r.currentLanguage,
                         translationVersion |-> r.translationVersion]
         /\ localStore' = IF r.currentLanguage # provider.currentLanguage
                          THEN Persist(mountIn, localStore, r.currentLanguage)
                          ELSE localStore
         /\ ctxLog' = [op |-> "setLanguage", lang |-> lang, synced |-> r.synced]
    /\ UNCHANGED <<mountIn, notCtx>>

\* triggerRetranslation() in the browser
CtxTriggerRetranslation ==
    /\ provider # NotMounted
    /\ mountIn.hasWindow
    /\ ctxCalls < MaxCtxCalls
    /\ ctxCalls' = ctxCalls + 1
    /\ provider' = [provider EXCEPT !.translationVersion = @ + 1]
    /\ ctxLog' = [op |-> "triggerRetranslation", lang |-> <<>>, synced |-> FALSE]
    /\ UNCHANGED <<mountIn, localStore, notCtx>>

InitCtx ==
    /\ InitCache
    /\ TBAtRest
    /\ BTAtRest
    /\ GTAtRest
    /\ CLAtRest
    /\ SVAtRest
    /\ RLAtRest
    /\ mountIn \in MountInputs
    /\ provider = NotMounted
    /\ localStore = mountIn.stored
    /\ ctxLog = NoCtxCall
    /\ ctxCalls = 0

NextCtx ==
    \/ CtxMount
    \/ \E lang \in CtxLangs : CtxSetLanguage(lang)
    \/ CtxTriggerRetranslation

SpecCtx == InitCtx /\ [][NextCtx]_vars

\* a step of setLanguage
SetLanguageStep == ctxCalls' # ctxCalls /\ ctxLog'.op = "setLanguage"

VersionIffLanguageChanged ==
    SetLanguageStep =>
        /\ provider'.currentLanguage # provider.currentLanguage
               <=> provider'.translationVersion = provider.translationVersion + 1
        /\ provider'.currentLanguage = provider.currentLanguage
               => provider'.translationVersion = provider.translationVersion
        /\ getBaseLanguage(ctxLog'.lang) = provider.currentLanguage => provider' = provider

\* C17: a call of setLanguage increments translationVersion exactly when it
\* changes currentLanguage, the change to the default after an unsupported
\* code included; a call with the current language changes neither
C17_VersionTracksLanguage == [][VersionIffLanguageChanged]_vars

\* a source of the initial language counts when it is there and its base code
\* is a language of SUPPORTED_LANGUAGES
Usable(v) == v # Null /\ v # <<>> /\ getBaseLanguage(v) \in SUPPORTED_LANGUAGES

\* what the page holds in localStorage and what the browser reports, when
\* there is a window to ask
StoredSeen(in) == IF in.hasWindow /\ ~in.lsThrows THEN in.stored ELSE Null
BrowserSeen(in) ==
    IF ~in.hasWindow THEN Null
    ELSE IF in.language # <<>> THEN in.language ELSE in.userLanguage

\* the base code of the first usable source, the default 'en' if there is none
RECURSIVE FirstUsable(_)
FirstUsable(sources) ==
    IF sources = <<>> THEN EN
    ELSE IF Usable(Head(sources)) THEN getBaseLanguage(Head(sources))
    ELSE FirstUsable(Tail(sources))

\* C18: the language of a provider that has just mounted is the base code of
\* the first of server value, stored value and browser locale that is present
\* and supported, and 'en' if none is
C18_InitialLanguagePriority ==
    provider # NotMounted /\ ctxCalls = 0 =>
        provider.currentLanguage
            = FirstUsable(<<mountIn.serverLanguage, StoredSeen(mountIn), BrowserSeen(mountIn)>>)

\* the server sent an unsupported code, localStorage holds "fr" and the
\* browser reports "de-DE": the page starts in French
C18_Witness ==
    /\ provider # NotMounted /\ ctxCalls = 0
    /\ mountIn.serverLanguage = sXx
    /\ mountIn.stored = FR /\ ~mountIn.lsThrows
    /\ mountIn.language = sDeDE
    /\ provider.currentLanguage = FR

UnsupportedFallsBack ==
    SetLanguageStep /\ getBaseLanguage(ctxLog'.lang) \notin SUPPORTED_LANGUAGES
        => provider'.currentLanguage = EN

\* C22: a call of setLanguage with a code whose base code is not a language of
\* SUPPORTED_LANGUAGES completes and leaves currentLanguage at the default
\* 'en', whatever the language was before
C22_UnsupportedFallsBackToDefault == [][UnsupportedFallsBack]_vars

\* C40: the language of a mounted provider is always a base code of
\* SUPPORTED_LANGUAGES, whatever the server, localStorage and the browser
\* held at the mount and whatever setLanguage and triggerRetranslation calls
\* followed
C40_LanguageAlwaysSupported ==
    provider # NotMounted => provider.currentLanguage \in SUPPORTED_LANGUAGES

\* the texts the client is asked to translate in the runs of translateBatch
\* and of translateText
ClientTexts == TBTexts \cup BTTexts \cup {sYo}

\* the entry the client cache holds for (text, targetLang), in either tier
CachedFor(tier, text, targetLang) == TierGet(tier, generateSyncCacheKey(text, targetLang))

\* C39: the client cache never holds a text as its own translation: an entry
\* for (text, targetLang) is written only with a translation the provider
\* returned, never with the text the server echoed on a failure or the text
\* that stood in for an element missing from the answer
C39_FailureNeverCached ==
    \A text \in ClientTexts, targetLang \in BTLangs :
        /\ CachedFor(cache.mem, text, targetLang) # text
        /\ CachedFor(cache.ls, text, targetLang) # text

====
